---- MODULE Spec2Model ----
(***************************************************************************)
(* State-machine model of the per-session concurrency engine of            *)
(* src/src/services/gemini_client.py (GeminiLiveClient, SessionStores,     *)
(* WebRTCManager.close).                                                   *)
(*                                                                         *)
(* Every action is one atomic segment of a coroutine between two           *)
(* suspension points of the asyncio run loop.  Objects (exit stack,        *)
(* dialogue queues, stats dict, tasks, adapter) are identified by           *)
(* the incarnation that created them; the nine store maps hold, per        *)
(* SessionID, the incarnation whose object is registered, or 0.            *)
(***************************************************************************)
EXTENDS Naturals, Sequences, FiniteSets, TLC

\* ---- bounds of the model
MaxIds == 2
MaxCallIds == 1
MaxInc == 2
MaxClosers == 2
MaxOps == 3
MaxOpsAll == 4
MaxCalls == 1
MaxPuts == 2
MaxEvents == 1
MaxAudioCalls == 60
MaxHeard == 3
MaxAnswers == 2
MaxConns == 2
MaxCasts == 3
MaxCastsFull == 104

\* ---- program constants
AudioQueueMaxsize == 50
MediaQueueMaxsize == 1
PendingEx == 300
OutboundMaxsize == 100

SessionIDs == 1..MaxIds
\* the ids the calls of one lifecycle are made with
CallIDs == 1..MaxCallIds
Incs == 1..MaxInc
\* frame 0 is the close_session call nested in create_webrtc_session
Frames == 0..MaxClosers
StoreNames ==
    {"sessions", "callbacks", "response_listeners", "send_processor",
     "audio_send_queues", "media_send_queues", "contexts", "webrtc_managers",
     "session_stats"}
Roles == {"listener", "audio", "media"}
Procs == {"audio", "media"}
StatNames == {"audio_sent", "images_sent", "images_skipped", "audio_received"}
Terminal == {"done", "cancelled", "failed"}

VARIABLES
    stores,      \* SessionStores: [StoreNames -> [SessionIDs -> 0..MaxInc]]
    nextInc,     \* number of incarnations allocated so far
    incSid,      \* SessionID an incarnation was created under
    ctx,         \* AsyncExitStack of an incarnation
    adapter,     \* WebRTCManager of an incarnation
    task,        \* asyncio tasks of an incarnation: [Roles -> [pc, cancel]]
    queue,       \* asyncio.Queue contents: [Procs -> Seq(item)]
    unfinished,  \* asyncio.Queue._unfinished_tasks: [Procs -> Nat]
    stats,       \* session_stats dict of an incarnation
    offers,      \* history: result of every put_nowait on a queue, in call order
    log,         \* history: every item a Send Processor dequeued, with its fate
    cl,          \* close_session calls in progress: [Frames -> record]
    cr,          \* the create_webrtc_session call in progress
    hot,         \* coroutine whose await did not suspend and that runs on
    nevents,     \* number of events delivered to Response Listeners
    heard,       \* history: every event a listener received, with the callbacks called
    redis,       \* key-value store: record under session:<id>, [status, ex]
    ans,         \* SessionService.set_webrtc_answer calls in progress
    svc,         \* SessionService.close_session calls: what follows the local close
    made,        \* SessionService.create_session: how far the call made with an id got
    active_connections, \* ConnectionManager.active_connections: [SessionIDs -> connection, 0 = none]
    sockets,     \* WebSocket connections: consumer_task position, outbound queue, bytes sent
    casts        \* history: every broadcast call of a session, with what it did

SocketVars == <<active_connections, sockets, casts>>

vars ==
    <<stores, nextInc, incSid, ctx, adapter, task, queue, unfinished, stats,
      offers, log, cl, cr, hot, nevents, heard, redis, ans, svc, made, SocketVars>>


\* ---- SessionStores ------------------------------------------------------

EmptyStores == [m \in StoreNames |-> [s \in SessionIDs |-> 0]]

clear_every(st, sid) == [m \in StoreNames |-> [s \in SessionIDs |-> 0]]

\* SessionStores.clear_session: delete the id from every dict of the stores
clear_session(st, sid) == [m \in StoreNames |-> [st[m] EXCEPT ![sid] = 0]]

\* the maps that hold an entry for sid
EntriesOf(sid) == {m \in StoreNames : stores[m][sid] # 0}

\* the maps whose entry is an object of incarnation i
EntriesOfInc(i) == {m \in StoreNames : \E s \in SessionIDs : stores[m][s] = i}

IdleFrame ==
    [pc |-> "idle", sid |-> 0, inc |-> 0, ref |-> 0, procs |-> 0,
     ret |-> FALSE, exc |-> "none", mid |-> FALSE, all |-> FALSE]

IdleCreate ==
    [pc |-> "idle", sid |-> 0, prior |-> 0, inc |-> 0, result |-> "none",
     stage |-> "none"]

HotNone == [k |-> "none", c |-> 0]
HotCr == [k |-> "cr", c |-> 0]
HotCl(c) == [k |-> "cl", c |-> c]

NewTask == [pc |-> "new", cancel |-> FALSE]
NoTask == [pc |-> "none", cancel |-> FALSE]
ZeroStats == [n \in StatNames |-> 0]

\* no value under a session key; ex = 0 is a key without expiry
NoRecord == [status |-> "absent", ex |-> 0]
\* a pending record set without ex
PendingForever == [status |-> "pending", ex |-> 0]
\* create_session: {"status": "pending", ...} with ex=300
PendingRecord == [status |-> "pending", ex |-> PendingEx]
Answerers == 1..MaxAnswers
Closers == 1..MaxClosers
\* a set_webrtc_answer call; had and prev are history: whether the stores
\* held an entry for the id when the call was made, and how the call made
\* before it had ended by then
IdleAnswer ==
    [pc |-> "idle", sid |-> 0, data |-> NoRecord, ref |-> 0, result |-> "none",
     had |-> FALSE, prev |-> "none"]
\* SessionService.close_session around a close_session call of the client:
\* "local" until the key is deleted
IdleServiceClose == [pc |-> "local", ret |-> FALSE]

Conns == 1..MaxConns
\* a WebSocket no websocket_endpoint call has been made for yet
NewSocket == [pc |-> "new", sid |-> 0, q |-> <<>>, hand |-> 0, sent |-> <<>>]
\* ConnectionManager.__init__ (connection_manager.py line 12)
SocketsInit ==
    /\ active_connections = [s \in SessionIDs |-> 0]
    /\ sockets = [c \in Conns |-> NewSocket]
    /\ casts = [s \in SessionIDs |-> <<>>]

Init ==
    /\ stores = EmptyStores
    /\ nextInc = 0
    /\ incSid = [i \in Incs |-> 0]
    /\ ctx = [i \in Incs |-> "none"]
    /\ adapter = [i \in Incs |-> "none"]
    /\ task = [i \in Incs |-> [r \in Roles |-> NoTask]]
    /\ queue = [i \in Incs |-> [p \in Procs |-> <<>>]]
    /\ unfinished = [i \in Incs |-> [p \in Procs |-> 0]]
    /\ stats = [i \in Incs |-> ZeroStats]
    /\ offers = [i \in Incs |-> [p \in Procs |-> <<>>]]
    /\ log = [i \in Incs |-> [p \in Procs |-> <<>>]]
    /\ cl = [c \in Frames |-> IdleFrame]
    /\ cr = IdleCreate
    /\ hot = HotNone
    /\ nevents = 0
    /\ heard = [i \in Incs |-> <<>>]
    /\ redis = [s \in SessionIDs |-> NoRecord]
    /\ ans = [a \in Answerers |-> IdleAnswer]
    /\ svc = [c \in Closers |-> IdleServiceClose]
    /\ made = [s \in SessionIDs |-> "none"]
    /\ SocketsInit

Free == hot = HotNone

\* create_webrtc_session and close_session calls made so far
Ops ==
    nextInc + (IF cr.pc = "closing" THEN 1 ELSE 0)
            + Cardinality({c \in 1..MaxClosers : cl[c].pc # "idle"})

AllTerminal(i) == \A r \in Roles : task[i][r].pc \in Terminal
Running(i, r) == task[i][r].pc \notin Terminal \cup {"none"}
NoNewTask == \A i \in Incs : \A r \in Roles : task[i][r].pc # "new"

\* ---- close_session ------------------------------------------------------
\* The helpers below are the straight-line code between two awaits of
\* close_session; each determines cl, task, stores, ctx and hot.

\* task.cancel(): a request, delivered when the task next runs
Cancel(t, r) ==
    [task EXCEPT ![t][r].cancel = (@ \/ task[t][r].pc \notin Terminal)]

\* the caller of frame c continues as soon as c returns
AfterRet(c) == IF c = 0 THEN HotCr ELSE HotNone

\* awaiting a task that is already done does not suspend
AwaitTask(c, t, r) == IF task[t][r].pc \in Terminal THEN HotCl(c) ELSE HotNone

\* a close_session whose except branch returns without clear_session
CloseReturnKeep(c, f, val, why, ctx2) ==
    /\ stores' = IF val THEN clear_session(stores, f.sid) ELSE stores
    /\ cl' = [cl EXCEPT ![c] = [f EXCEPT !.pc = "ret", !.ret = val, !.exc = why,
                                          !.ref = 0, !.procs = 0]]
    /\ ctx' = ctx2
    /\ hot' = AfterRet(c)
    /\ UNCHANGED task

\* lines 684-687 and 688-691: clear_then return
CloseReturn(c, f, val, why, ctx2) ==
    /\ stores' = clear_session(stores, f.sid)
    /\ cl' = [cl EXCEPT ![c] = [f EXCEPT !.pc = "ret", !.ret = val, !.exc = why,
                                          !.ref = 0, !.procs = 0]]
    /\ ctx' = ctx2
    /\ hot' = AfterRet(c)
    /\ UNCHANGED task

\* lines 681-682: context.aclose()
ToCtx(c, f) ==
    LET x == stores.contexts[f.sid] IN
    IF x # 0
    THEN /\ cl' = [cl EXCEPT ![c] = [f EXCEPT !.pc = "ctx", !.ref = x]]
         /\ ctx' = IF ctx[x] = "open" THEN [ctx EXCEPT ![x] = "closing"] ELSE ctx
         /\ hot' = IF ctx[x] = "open" THEN HotNone ELSE HotCl(c)
         /\ UNCHANGED <<task, stores>>
    ELSE CloseReturn(c, f, TRUE, "none", ctx)

\* lines 673-679, second iteration of the loop over processors.values()
ToMedia(c, f) ==
    /\ task' = Cancel(f.procs, "media")
    /\ cl' = [cl EXCEPT ![c] = [f EXCEPT !.pc = "media"]]
    /\ hot' = AwaitTask(c, f.procs, "media")
    /\ UNCHANGED <<stores, ctx>>

\* lines 672-679, first iteration of the loop over processors.values()
ToProcs(c, f) ==
    LET p == stores.send_processor[f.sid] IN
    IF p # 0
    THEN /\ task' = Cancel(p, "audio")
         /\ cl' = [cl EXCEPT ![c] = [f EXCEPT !.pc = "audio", !.procs = p]]
         /\ hot' = AwaitTask(c, p, "audio")
         /\ UNCHANGED <<stores, ctx>>
    ELSE ToCtx(c, f)

\* lines 665-670: cancel and await the Response Listener
ToListener(c, f) ==
    LET t == stores.response_listeners[f.sid] IN
    IF t # 0
    THEN /\ task' = Cancel(t, "listener")
         /\ cl' = [cl EXCEPT ![c] = [f EXCEPT !.pc = "listener", !.ref = t]]
         /\ hot' = AwaitTask(c, t, "listener")
         /\ UNCHANGED <<stores, ctx>>
    ELSE ToProcs(c, f)

\* both Send Processors are suspended in a forward to the Dialogue Connection
MidSend(i) == \A p \in Procs : task[i][p].pc = "send" /\ ~task[i][p].cancel

\* lines 649-662 for a known session: WebRTCManager.close() is awaited
CloseEnter(c, sid) ==
    LET i == stores.sessions[sid]
        wm == stores.webrtc_managers[sid]
        f == [IdleFrame EXCEPT !.sid = sid, !.inc = i, !.mid = MidSend(i),
                              !.all = cl[c].all]
    IN  IF wm # 0
        THEN /\ cl' = [cl EXCEPT ![c] = [f EXCEPT !.pc = "adapter", !.ref = wm]]
             /\ adapter' = [adapter EXCEPT ![wm] = "closing"]
             /\ hot' = HotNone
             /\ UNCHANGED <<task, stores, ctx>>
        ELSE /\ ToListener(c, f)
             /\ UNCHANGED adapter

\* GeminiLiveClient.close_up to its first await
CloseBegin(c, sid) ==
    /\ Free
    /\ c # 0
    /\ \/ cl[c].pc = "idle" /\ (c = 1 \/ cl[c - 1].pc # "idle") /\ Ops < MaxOps
       \/ cl[c].pc = "spawned" /\ cl[c].sid = sid
    /\ IF stores.sessions[sid] = 0
       THEN /\ cl' = [cl EXCEPT ![c] =
                        [IdleFrame EXCEPT !.pc = "ret", !.sid = sid,
                                          !.exc = "unknown",
                                          !.all = cl[c].all]]
            /\ UNCHANGED <<task, stores, ctx, adapter, hot>>
       ELSE CloseEnter(c, sid)
    /\ UNCHANGED <<nextInc, incSid, queue, unfinished, stats, offers,
                   log, cr, nevents, heard,
                   redis, ans, svc, made, SocketVars>>

\* WebRTCManager.close() returns or raises (lines 235-242, 661-663)
CloseAdapterDone(c, ok) ==
    /\ Free
    /\ cl[c].pc = "adapter"
    /\ IF ok
       THEN /\ adapter' = [adapter EXCEPT ![cl[c].ref] = "closed"]
            /\ ToListener(c, cl[c])
       ELSE /\ adapter' = [adapter EXCEPT ![cl[c].ref] = "failed"]
            /\ CloseReturn(c, cl[c], FALSE, "adapter", ctx)
    /\ UNCHANGED <<nextInc, incSid, queue, unfinished, stats, offers,
                   log, cr, nevents, heard,
                   redis, ans, svc, made, SocketVars>>

\* `await task` returns (lines 667-670 and 676-679)
CloseTaskDone(c) ==
    /\ Free \/ hot = HotCl(c)
    /\ cl[c].pc \in Roles
    /\ LET r == cl[c].pc
           t == IF r = "listener" THEN cl[c].ref ELSE cl[c].procs
       IN  /\ task[t][r].pc \in Terminal
           /\ IF task[t][r].pc = "failed"
              THEN CloseReturn(c, cl[c], FALSE, "task", ctx)
              ELSE IF r = "listener" THEN ToProcs(c, cl[c])
              ELSE IF r = "audio" THEN ToMedia(c, cl[c])
              ELSE ToCtx(c, cl[c])
    /\ UNCHANGED <<nextInc, incSid, adapter, queue, unfinished, stats,
                   offers, log, cr, nevents, heard,
                   redis, ans, svc, made, SocketVars>>

\* context.aclose() returns or raises (lines 681-687)
CloseCtxDone(c, ok) ==
    /\ cl[c].pc = "ctx"
    /\ IF hot = HotCl(c)
       THEN /\ ok
            /\ CloseReturn(c, cl[c], TRUE, "none", ctx)
       ELSE /\ Free
            /\ IF ok
               THEN CloseReturn(c, cl[c], TRUE, "none",
                                [ctx EXCEPT ![cl[c].ref] = "released"])
               ELSE CloseReturn(c, cl[c], FALSE, "ctx",
                                [ctx EXCEPT ![cl[c].ref] = "broken"])
    /\ UNCHANGED <<nextInc, incSid, adapter, queue, unfinished, stats,
                   offers, log, cr, nevents, heard,
                   redis, ans, svc, made, SocketVars>>

\* GeminiLiveClient.close_all_sessions: one close_session per known id,
\* gathered; with mark, the history keeps which calls the gather made
close_all_sessions(limit, mark) ==
    LET known == {s \in SessionIDs : stores.sessions[s] # 0}
        idle == {c \in 1..MaxClosers : cl[c].pc = "idle"}
        rank(s) == Cardinality({u \in known : u < s})
        first == CHOOSE c \in idle : \A d \in idle : c <= d
    IN  /\ Free
        /\ known # {}
        /\ Cardinality(idle) >= Cardinality(known)
        /\ Ops + Cardinality(known) <= limit
        /\ cl' = [c \in Frames |->
                    IF \E s \in known : c = first + rank(s)
                    THEN [IdleFrame EXCEPT
                            !.pc = "spawned",
                            !.all = mark,
                            !.sid = CHOOSE s \in known : c = first + rank(s)]
                    ELSE cl[c]]
        /\ UNCHANGED <<stores, nextInc, incSid, ctx, adapter, task,
                       queue, unfinished, stats, offers, log, cr, hot,
                       nevents, heard,
                   redis, ans, svc, made, SocketVars>>

\* ---- create_webrtc_session ----------------------------------------------

\* lines 336-340: build the config and the client, register the exit stack,
\* then await the connect; a ValueError of _get_client is caught at line 405
CreateEnter(sid, prior) ==
    \/ /\ cr' = [IdleCreate EXCEPT !.pc = "ret", !.sid = sid, !.prior = prior,
                                   !.result = "none", !.stage = "config"]
       /\ UNCHANGED <<stores, nextInc, incSid, ctx>>
    \/ LET i == nextInc + 1 IN
       /\ nextInc' = i
       /\ incSid' = [incSid EXCEPT ![i] = sid]
       /\ ctx' = [ctx EXCEPT ![i] = "empty"]
       /\ stores' = [stores EXCEPT !.contexts[sid] = i]
       /\ cr' = [IdleCreate EXCEPT !.pc = "connect", !.sid = sid,
                                   !.prior = prior, !.inc = i,
                                   !.stage = "open"]

\* lines 333-340: a colliding id is closed first, by a nested close_session
CreateBegin(sid) ==
    /\ Free
    /\ cr.pc \in {"idle", "ret"}
    /\ nextInc < MaxInc
    /\ Ops < MaxOps
    /\ IF stores.sessions[sid] # 0
       THEN /\ cr' = [IdleCreate EXCEPT !.pc = "closing", !.sid = sid,
                                        !.prior = stores.sessions[sid],
                                        !.stage = "close"]
            /\ CloseEnter(0, sid)
            /\ UNCHANGED <<nextInc, incSid>>
       ELSE /\ CreateEnter(sid, 0)
            /\ UNCHANGED <<cl, task, adapter, hot>>
    /\ UNCHANGED <<queue, unfinished, stats, offers, log, nevents, heard,
                   redis, ans, svc, made, SocketVars>>

\* line 334 returns: the result of the nested close_session is dropped
CreateResume ==
    /\ hot = HotCr
    /\ cr.pc = "closing"
    /\ CreateEnter(cr.sid, cr.prior)
    /\ cl' = [cl EXCEPT ![0] = IdleFrame]
    /\ hot' = HotNone
    /\ UNCHANGED <<adapter, task, queue, unfinished, stats, offers,
                   log, nevents, heard,
                   redis, ans, svc, made, SocketVars>>

\* lines 348-403: everything registered after a successful connect
Register(st, sid, i) ==
    [m \in StoreNames |->
        IF m = "contexts" THEN st[m] ELSE [st[m] EXCEPT ![sid] = i]]

\* lines 341-408: the connect returns a session, raises InvalidStatus
\* (re-raised to the caller) or raises an error caught at line 405
CreateConnected(outcome) ==
    /\ Free
    /\ cr.pc = "connect"
    /\ NoNewTask
    /\ LET i == cr.inc
           sid == cr.sid
       IN  IF outcome = "ok"
           THEN /\ ctx' = [ctx EXCEPT ![i] = "open"]
                /\ stores' = Register(stores, sid, i)
                /\ adapter' = [adapter EXCEPT ![i] = "open"]
                /\ task' = [task EXCEPT ![i] = [r \in Roles |-> NewTask]]
                /\ cr' = [cr EXCEPT !.pc = "ret", !.result = "ok"]
           ELSE /\ cr' = [cr EXCEPT !.pc = "ret",
                                    !.result = IF outcome = "invalid_status"
                                               THEN "raised" ELSE "none"]
                /\ UNCHANGED <<ctx, stores, adapter, task>>
    /\ UNCHANGED <<nextInc, incSid, queue, unfinished, stats, offers, log, cl,
                   hot, nevents, heard,
                   redis, ans, svc, made, SocketVars>>

\* ---- Send Processors ----------------------------------------------------
\* A step of the processor of queue p of incarnation i is computed as the
\* record of what it leaves behind: its position, the queue, the queue's
\* unfinished count and the history of dequeued items.

\* what the processor of queue p forwards (lines 447, 454 and 506)
Forwards(p, item) ==
    IF p = "audio" THEN item.k \in {"text", "audio"} ELSE item.k = "image"

\* asyncio.Queue.task_done in the `finally` of lines 467-468 / 519-520:
\* raises ValueError when no put is unfinished
TaskDoneRaises(i, p) == unfinished[i][p] = 0

Same(i, p, pc) ==
    [pc |-> pc, q |-> queue[i][p], unf |-> unfinished[i][p], lg |-> log[i][p]]

AfterItemNoYield(i, p, q, lg) ==
    IF TaskDoneRaises(i, p)
    THEN [pc |-> "failed", q |-> q, unf |-> unfinished[i][p], lg |-> lg]
    ELSE IF q = <<>>
    THEN [pc |-> "get", q |-> q, unf |-> unfinished[i][p] - 1, lg |-> lg]
    ELSE [pc |-> "send", q |-> Tail(q), unf |-> unfinished[i][p] - 1,
          lg |-> Append(lg, [id |-> Head(q).id, k |-> Head(q).k,
                             newest |-> Len(offers[i][p]), st |-> "pending"])]

\* lines 467-480 / 519-533: task_done, then sleep(0)
AfterItem(i, p, q, lg) ==
    IF TaskDoneRaises(i, p)
    THEN [pc |-> "failed", q |-> q, unf |-> unfinished[i][p], lg |-> lg]
    ELSE [pc |-> "yield", q |-> q, unf |-> unfinished[i][p] - 1, lg |-> lg]

\* lines 446-463 / 505-515: the item is taken; a forward is awaited, or the
\* item is of no forwarded type and the iteration ends
Take(i, p) ==
    LET item == Head(queue[i][p])
        fw == Forwards(p, item)
        entry == [id |-> item.id, k |-> item.k, newest |-> Len(offers[i][p]),
                  st |-> IF fw THEN "pending" ELSE "skipped"]
        lg == Append(log[i][p], entry)
    IN  IF fw
        THEN [pc |-> "send", q |-> Tail(queue[i][p]),
              unf |-> unfinished[i][p], lg |-> lg]
        ELSE AfterItem(i, p, Tail(queue[i][p]), lg)

\* lines 444-446 / 503-505: the loop condition, then queue.get()
LoopTop(i, p) ==
    IF stores.sessions[incSid[i]] = 0 THEN Same(i, p, "done")
    ELSE IF queue[i][p] = <<>> THEN Same(i, p, "get")
    ELSE Take(i, p)

\* lines 431-446 / 490-505: the first run of the task, or its cancellation
\* before it ever ran
ProcFirstRun(i, p) ==
    IF task[i][p].pc # "new" THEN Same(i, p, task[i][p].pc)
    ELSE IF task[i][p].cancel THEN Same(i, p, "cancelled")
    ELSE LoopTop(i, p)

\* lines 542-560, likewise for the Response Listener
ListenerFirstRun(i) ==
    IF task[i].listener.pc # "new" THEN task[i].listener.pc
    ELSE IF task[i].listener.cancel THEN "cancelled"
    ELSE IF stores.sessions[incSid[i]] = 0 THEN "done"
    ELSE "recv"

Settle(t, pc) == [pc |-> pc, cancel |-> t.cancel /\ pc \notin Terminal]

\* The three tasks created by lines 365-375 are adjacent in the run loop's
\* ready queue: they have their first run one after the other.
TasksStart(i) ==
    /\ Free
    /\ \E r \in Roles : task[i][r].pc = "new"
    /\ LET a == ProcFirstRun(i, "audio")
           m == ProcFirstRun(i, "media")
       IN  /\ task' = [task EXCEPT ![i] =
                        [listener |-> Settle(task[i].listener, ListenerFirstRun(i)),
                         audio |-> Settle(task[i].audio, a.pc),
                         media |-> Settle(task[i].media, m.pc)]]
           /\ queue' = [queue EXCEPT ![i] = [audio |-> a.q, media |-> m.q]]
           /\ unfinished' = [unfinished EXCEPT ![i] =
                               [audio |-> a.unf, media |-> m.unf]]
           /\ log' = [log EXCEPT ![i] = [audio |-> a.lg, media |-> m.lg]]
    /\ UNCHANGED <<stores, nextInc, incSid, ctx, adapter, stats, offers, cl,
                   cr, hot, nevents, heard,
                   redis, ans, svc, made, SocketVars>>

ProcSet(i, p, r) ==
    /\ task' = [task EXCEPT ![i][p].pc = r.pc]
    /\ queue' = [queue EXCEPT ![i][p] = r.q]
    /\ unfinished' = [unfinished EXCEPT ![i][p] = r.unf]
    /\ log' = [log EXCEPT ![i][p] = r.lg]

\* one loop for both queues: no item is taken while a forward is awaited
ProcWakeSerial(i, p) ==
    /\ Free
    /\ task[i][p].pc = "get"
    /\ ~task[i][p].cancel
    /\ queue[i][p] # <<>>
    /\ \A o \in Procs : task[i][o].pc # "send"
    /\ ProcSet(i, p, Take(i, p))
    /\ UNCHANGED <<stores, nextInc, incSid, ctx, adapter, stats, offers, cl,
                   cr, hot, nevents, heard,
                   redis, ans, svc, made, SocketVars>>

\* queue.get() resumes with an item
ProcWake(i, p) ==
    /\ Free
    /\ task[i][p].pc = "get"
    /\ ~task[i][p].cancel
    /\ queue[i][p] # <<>>
    /\ ProcSet(i, p, Take(i, p))
    /\ UNCHANGED <<stores, nextInc, incSid, ctx, adapter, stats, offers, cl,
                   cr, hot, nevents, heard,
                   redis, ans, svc, made, SocketVars>>

SetLast(lg, st) == [lg EXCEPT ![Len(lg)].st = st]

SentStat(p) == IF p = "audio" THEN "audio_sent" ELSE "images_sent"

\* history: a close_session that began with both processors in a forward
\* no longer has them there once a forward has returned
NotMid(i) ==
    [c \in Frames |->
        IF cl[c].inc = i /\ cl[c].pc # "ret"
        THEN [cl[c] EXCEPT !.mid = FALSE] ELSE cl[c]]

\* a processor that counts an item whether or not its forward succeeded
CountedAlways(ok, k) == k # "text"

\* lines 453 / 463 / 515: the counter is incremented after the forward has
\* returned, for audio and images, not for text
Counted(ok, k) == ok /\ k # "text"

\* a dispatch helper without the try of lines 414-420
CallbackEscapesAlways(raises) == raises

\* _call_callback, lines 410-420: `except Exception` logs what the callback
\* raises; nothing reaches the caller
CallbackEscapes(raises) == FALSE

\* lines 464-466 / 516-518 and _handle_error (422-427): the on_error looked
\* up under the SessionID in stores.callbacks is called with the error; the
\* fate recorded is "error" when that is the callback set of incarnation i,
\* "error_other" when it is a later session's, "error_unheard" when the id
\* has no callbacks any more
Reported(i) ==
    LET c == stores.callbacks[incSid[i]] IN
    IF c = i THEN "error" ELSE IF c = 0 THEN "error_unheard" ELSE "error_other"

\* lines 449-468 / 513-520: the forward returns or raises; the counter is
\* incremented for audio and images; task_done; sleep(0)
ProcSendDone(i, p, ok) ==
    /\ Free
    /\ task[i][p].pc = "send"
    /\ ~task[i][p].cancel
    /\ LET e == log[i][p][Len(log[i][p])]
           lg == SetLast(log[i][p], IF ok THEN "sent" ELSE Reported(i))
       IN  /\ ProcSet(i, p, AfterItem(i, p, queue[i][p], lg))
           /\ stats' = IF Counted(ok, e.k)
                       THEN [stats EXCEPT ![i][SentStat(p)] = @ + 1]
                       ELSE stats
    /\ cl' = NotMid(i)
    /\ UNCHANGED <<stores, nextInc, incSid, ctx, adapter, offers, cr, hot,
                   nevents, heard,
                   redis, ans, svc, made, SocketVars>>

\* lines 464-468 / 516-520 when the forward raises and the session's
\* on_error raises an Exception in its turn: when that escapes
\* _call_callback it leaves the handler of line 464 / 516, task_done is
\* called by the `finally` and the task ends with the exception; otherwise
\* the iteration ends as after any failed forward
ProcSendFailedRaising(i, p) ==
    /\ Free
    /\ task[i][p].pc = "send"
    /\ ~task[i][p].cancel
    /\ Reported(i) = "error"
    /\ LET lg == SetLast(log[i][p], "error_raised")
           r == AfterItem(i, p, queue[i][p], lg)
       IN  ProcSet(i, p, IF CallbackEscapes(TRUE)
                         THEN [r EXCEPT !.pc = "failed"] ELSE r)
    /\ cl' = NotMid(i)
    /\ UNCHANGED <<stores, nextInc, incSid, ctx, adapter, stats, offers, cr,
                   hot, nevents, heard, redis, ans, svc, made, SocketVars>>

\* line 480 / 533: sleep(0) returns
ProcResume(i, p) ==
    /\ Free
    /\ task[i][p].pc = "yield"
    /\ ~task[i][p].cancel
    /\ ProcSet(i, p, LoopTop(i, p))
    /\ UNCHANGED <<stores, nextInc, incSid, ctx, adapter, stats, offers, cl,
                   cr, hot, nevents, heard,
                   redis, ans, svc, made, SocketVars>>

\* CancelledError is thrown into the processor where it is suspended.  In
\* queue.get() and in the forward the `finally` of line 467 / 519 calls
\* task_done before the handler of line 481 / 534 is reached, and its
\* ValueError replaces the CancelledError; in sleep(0) the handler is
\* reached directly.
ProcCancelledAt(i, p) ==
    LET pc == task[i][p].pc IN
    IF pc = "yield" THEN Same(i, p, "done")
    ELSE IF TaskDoneRaises(i, p) THEN Same(i, p, "failed")
    ELSE [pc |-> "done", q |-> queue[i][p], unf |-> unfinished[i][p] - 1,
          lg |-> IF pc = "send" THEN SetLast(log[i][p], "cancelled")
                 ELSE log[i][p]]

ProcCancelled(i, p) ==
    /\ Free
    /\ task[i][p].cancel
    /\ task[i][p].pc \in {"get", "send", "yield"}
    /\ LET r == ProcCancelledAt(i, p) IN
       /\ task' = [task EXCEPT ![i][p] = [pc |-> r.pc, cancel |-> FALSE]]
       /\ queue' = [queue EXCEPT ![i][p] = r.q]
       /\ unfinished' = [unfinished EXCEPT ![i][p] = r.unf]
       /\ log' = [log EXCEPT ![i][p] = r.lg]
    /\ UNCHANGED <<stores, nextInc, incSid, ctx, adapter, stats, offers, cl,
                   cr, hot, nevents, heard,
                   redis, ans, svc, made, SocketVars>>

\* ---- Response Listener --------------------------------------------------

\* an event of a turn: whether its server_content is marked interrupted,
\* whether it carries audio data, whether it carries text
Events == [interrupted : BOOLEAN, data : BOOLEAN, text : BOOLEAN]

AudioEvent == [interrupted |-> FALSE, data |-> TRUE, text |-> FALSE]
TextEvent == [interrupted |-> FALSE, data |-> FALSE, text |-> TRUE]
InterruptedEvent == [interrupted |-> TRUE, data |-> TRUE, text |-> FALSE]

\* a listener that takes the audio of an interrupted turn back out of its
\* count
DispatchTakesBack(ev) ==
    IF ev.interrupted
    THEN [on_audio |-> 0, on_text |-> 0, received |-> 0 - 1]
    ELSE [on_audio |-> IF ev.data THEN 1 ELSE 0,
          on_text |-> IF ev.text THEN 1 ELSE 0,
          received |-> IF ev.data THEN 1 ELSE 0]

\* a listener that handles the payload of an interrupted event as well
DispatchAll(ev) ==
    [on_audio |-> IF ev.data THEN 1 ELSE 0,
     on_text |-> IF ev.text THEN 1 ELSE 0,
     received |-> IF ev.data THEN 1 ELSE 0]

\* lines 561-576: what the loop body does with one event: the number of
\* on_audio calls, of on_text calls, and the increment of audio_received.
\* The callbacks of the repository (session_service.py 27-31, which awaits
\* ConnectionManager.broadcast) do not suspend.
Dispatch(ev) ==
    IF ev.interrupted
    THEN [on_audio |-> 0, on_text |-> 0, received |-> 0]
    ELSE [on_audio |-> IF ev.data THEN 1 ELSE 0,
          on_text |-> IF ev.text THEN 1 ELSE 0,
          received |-> IF ev.data THEN 1 ELSE 0]

\* lines 561-576: one event of the turn
ListenerEvent(i, ev, limit) ==
    /\ Free
    /\ task[i].listener.pc = "recv"
    /\ ~task[i].listener.cancel
    /\ nevents < limit
    /\ nevents' = nevents + 1
    /\ LET d == Dispatch(ev) IN
       /\ stats' = [stats EXCEPT ![i].audio_received = @ + d.received]
       /\ heard' = [heard EXCEPT ![i] =
                      Append(@, [ev |-> ev, on_audio |-> d.on_audio,
                                 on_text |-> d.on_text, raised |-> FALSE])]
    /\ UNCHANGED <<stores, nextInc, incSid, ctx, adapter, task, queue,
                   unfinished, offers, log, cl, cr, hot,
                   redis, ans, svc, made, SocketVars>>

\* lines 561-576 with callbacks that raise an Exception: when it escapes
\* _call_callback it ends the listener at line 580 before the counter of
\* line 571, otherwise the loop body goes on as above
ListenerEventRaising(i, ev, limit) ==
    /\ Free
    /\ task[i].listener.pc = "recv"
    /\ ~task[i].listener.cancel
    /\ nevents < limit
    /\ nevents' = nevents + 1
    /\ LET d == Dispatch(ev)
           out == CallbackEscapes(TRUE)
       IN
       /\ d.on_audio + d.on_text > 0
       /\ task' = [task EXCEPT ![i].listener.pc = IF out THEN "done" ELSE @]
       /\ stats' = IF out THEN stats
                   ELSE [stats EXCEPT ![i].audio_received = @ + d.received]
       /\ heard' = [heard EXCEPT ![i] =
                      Append(@, [ev |-> ev, on_audio |-> d.on_audio,
                                 on_text |-> d.on_text, raised |-> TRUE])]
    /\ UNCHANGED <<stores, nextInc, incSid, ctx, adapter, queue,
                   unfinished, offers, log, cl, cr, hot,
                   redis, ans, svc, made, SocketVars>>

\* a listener whose connection error closes the session: the entries of the
\* id are removed when it ends on an error
ListenerTurnEndCloses(i, error) ==
    /\ Free
    /\ task[i].listener.pc = "recv"
    /\ ~task[i].listener.cancel
    /\ task' = [task EXCEPT ![i].listener.pc =
                  IF error \/ stores.sessions[incSid[i]] = 0
                  THEN "done" ELSE "recv"]
    /\ stores' = IF error THEN clear_session(stores, incSid[i]) ELSE stores
    /\ UNCHANGED <<nextInc, incSid, ctx, adapter, queue, unfinished,
                   stats, offers, log, cl, cr, hot, nevents, heard,
                   redis, ans, svc, made, SocketVars>>

\* lines 559-561: the turn is exhausted and the loop condition is read;
\* lines 580-585: a connection error ends the listener
ListenerTurnEnd(i, error) ==
    /\ Free
    /\ task[i].listener.pc = "recv"
    /\ ~task[i].listener.cancel
    /\ task' = [task EXCEPT ![i].listener.pc =
                  IF error \/ stores.sessions[incSid[i]] = 0
                  THEN "done" ELSE "recv"]
    /\ UNCHANGED <<stores, nextInc, incSid, ctx, adapter, queue, unfinished,
                   stats, offers, log, cl, cr, hot, nevents, heard,
                   redis, ans, svc, made, SocketVars>>

\* lines 578-579: CancelledError reaches the listener
ListenerCancelled(i) ==
    /\ Free
    /\ task[i].listener.cancel
    /\ task[i].listener.pc = "recv"
    /\ task' = [task EXCEPT ![i].listener = [pc |-> "done", cancel |-> FALSE]]
    /\ UNCHANGED <<stores, nextInc, incSid, ctx, adapter, queue, unfinished,
                   stats, offers, log, cl, cr, hot, nevents, heard,
                   redis, ans, svc, made, SocketVars>>

\* ---- enqueue operations -------------------------------------------------

\* Two other bounded-queue policies, to tell the code's apart from: a queue
\* that evicts its oldest item to admit the new one, and a queue that admits
\* one item more than maxsize.
QueuePutDropOldest(q, maxsize, item) ==
    IF Len(q) >= maxsize
    THEN [ok |-> TRUE, q |-> Append(Tail(q), item)]
    ELSE [ok |-> TRUE, q |-> Append(q, item)]

\* a queue that hands out its newest item first
QueuePutFront(q, maxsize, item) ==
    IF Len(q) >= maxsize
    THEN [ok |-> FALSE, q |-> q]
    ELSE [ok |-> TRUE, q |-> <<item>> \o q]

QueuePutOneMore(q, maxsize, item) ==
    IF Len(q) > maxsize
    THEN [ok |-> FALSE, q |-> q]
    ELSE [ok |-> TRUE, q |-> Append(q, item)]

\* put_nowait and the QueueFull handler (lines 604-612, 619-625, 635-643)
QueuePut(q, maxsize, item) ==
    IF Len(q) >= maxsize
    THEN [ok |-> FALSE, q |-> q]
    ELSE [ok |-> TRUE, q |-> Append(q, item)]

Maxsize(p) == IF p = "audio" THEN AudioQueueMaxsize ELSE MediaQueueMaxsize

QueueStore(p) == IF p = "audio" THEN "audio_send_queues" ELSE "media_send_queues"

RECURSIVE SumOffers(_)
SumOffers(n) ==
    IF n = 0 THEN 0
    ELSE Len(offers[n].audio) + Len(offers[n].media) + SumOffers(n - 1)

\* number of enqueue calls that reached a queue so far
Offered == SumOffers(MaxInc)

\* the common shape of queue_audio, queue_text and queue_image
Enqueue(sid, p, kind, limit) ==
    LET i == stores[QueueStore(p)][sid] IN
    /\ Free
    /\ IF i = 0
       THEN UNCHANGED <<queue, unfinished, offers>>
       ELSE LET r == QueuePut(queue[i][p], Maxsize(p),
                              [id |-> Len(offers[i][p]) + 1, k |-> kind])
            IN  /\ Offered < limit
                /\ queue' = [queue EXCEPT ![i][p] = r.q]
                /\ unfinished' = IF r.ok
                                 THEN [unfinished EXCEPT ![i][p] = @ + 1]
                                 ELSE unfinished
                /\ offers' = [offers EXCEPT ![i][p] = Append(@, r.ok)]
    /\ UNCHANGED <<stores, nextInc, incSid, ctx, adapter, task,
                   stats, log, cl, cr, hot, nevents, heard,
                   redis, ans, svc, made, SocketVars>>

queue_audio(sid, limit) == Enqueue(sid, "audio", "audio", limit)
queue_text(sid, limit) == Enqueue(sid, "audio", "text", limit)
queue_image(sid, mime, limit) == Enqueue(sid, "media", mime, limit)

\* ---- the adapter's frame forwarders -------------------------------------

\* lines 377-393: a frame arrives on a channel of the adapter of incarnation
\* i, while it is open or after its close() raised.  The closure holds the
\* SessionID, not the queue: it enqueues through queue_image / queue_audio
\* and then updates the stats dict found under the id (a fresh dict when
\* there is none).  handle_video_frame counts images_sent or
\* images_skipped, handle_audio_frame counts audio_sent on success.
Forwarder(i, p, kind, limit) ==
    LET sid == incSid[i]
        j == stores[QueueStore(p)][sid]
        sj == stores.session_stats[sid]
        r == IF j = 0 THEN [ok |-> FALSE, q |-> <<>>]
             ELSE QueuePut(queue[j][p], Maxsize(p),
                           [id |-> Len(offers[j][p]) + 1, k |-> kind])
        counter == IF r.ok THEN SentStat(p) ELSE "images_skipped"
    IN  /\ Free
        /\ adapter[i] \in {"open", "failed"}
        /\ IF j = 0
           THEN UNCHANGED <<queue, unfinished, offers>>
           ELSE /\ Offered < limit
                /\ queue' = [queue EXCEPT ![j][p] = r.q]
                /\ unfinished' = IF r.ok
                                 THEN [unfinished EXCEPT ![j][p] = @ + 1]
                                 ELSE unfinished
                /\ offers' = [offers EXCEPT ![j][p] = Append(@, r.ok)]
        /\ stats' = IF sj # 0 /\ (r.ok \/ p = "media")
                    THEN [stats EXCEPT ![sj][counter] = @ + 1]
                    ELSE stats
        /\ UNCHANGED <<stores, nextInc, incSid, ctx, adapter, task,
                       log, cl, cr, hot, nevents, heard,
                   redis, ans, svc, made, SocketVars>>

handle_video_frame(i, limit) == Forwarder(i, "media", "image", limit)
handle_audio_frame(i, limit) == Forwarder(i, "audio", "audio", limit)

\* ---- specifications -----------------------------------------------------

Next ==
    \/ \E s \in CallIDs : CreateBegin(s)
    \/ CreateResume
    \/ \E o \in {"ok", "invalid_status", "runtime_error"} : CreateConnected(o)
    \/ \E c \in Frames, s \in CallIDs : CloseBegin(c, s)
    \/ \E c \in Frames, ok \in BOOLEAN : CloseAdapterDone(c, ok)
    \/ \E c \in Frames : CloseTaskDone(c)
    \/ \E c \in Frames, ok \in BOOLEAN : CloseCtxDone(c, ok)
    \/ close_all_sessions(MaxOps, FALSE)
    \/ \E i \in Incs : TasksStart(i)
    \/ \E i \in Incs, p \in Procs : ProcWake(i, p)
    \/ \E i \in Incs, p \in Procs, ok \in BOOLEAN : ProcSendDone(i, p, ok)
    \/ \E i \in Incs, p \in Procs : ProcResume(i, p)
    \/ \E i \in Incs, p \in Procs : ProcCancelled(i, p)
    \/ \E i \in Incs, ev \in {AudioEvent, TextEvent, InterruptedEvent} :
          ListenerEvent(i, ev, MaxEvents)
    \/ \E i \in Incs, e \in BOOLEAN : ListenerTurnEnd(i, e)
    \/ \E i \in Incs : ListenerCancelled(i)
    \/ \E s \in CallIDs : queue_audio(s, MaxCalls)
    \/ \E s \in CallIDs : queue_text(s, MaxCalls)
    \/ \E s \in CallIDs, m \in {"image", "other"} :
          queue_image(s, m, MaxCalls)
    \/ \E i \in Incs : handle_video_frame(i, MaxCalls)
    \/ \E i \in Incs : handle_audio_frame(i, MaxCalls)

Spec == Init /\ [][Next]_vars

\* The state in which create_webrtc_session returns its first session:
\* everything registered, the three tasks created and not yet run.
InitLive ==
    /\ stores = [m \in StoreNames |-> [s \in SessionIDs |-> IF s = 1 THEN 1 ELSE 0]]
    /\ nextInc = 1
    /\ incSid = [i \in Incs |-> IF i = 1 THEN 1 ELSE 0]
    /\ ctx = [i \in Incs |-> IF i = 1 THEN "open" ELSE "none"]
    /\ adapter = [i \in Incs |-> IF i = 1 THEN "open" ELSE "none"]
    /\ task = [i \in Incs |-> [r \in Roles |-> IF i = 1 THEN NewTask ELSE NoTask]]
    /\ queue = [i \in Incs |-> [p \in Procs |-> <<>>]]
    /\ unfinished = [i \in Incs |-> [p \in Procs |-> 0]]
    /\ stats = [i \in Incs |-> ZeroStats]
    /\ offers = [i \in Incs |-> [p \in Procs |-> <<>>]]
    /\ log = [i \in Incs |-> [p \in Procs |-> <<>>]]
    /\ cl = [c \in Frames |-> IdleFrame]
    /\ cr = [IdleCreate EXCEPT !.pc = "ret", !.sid = 1, !.inc = 1,
                               !.result = "ok", !.stage = "open"]
    /\ hot = HotNone
    /\ nevents = 0
    /\ heard = [i \in Incs |-> <<>>]
    /\ redis = [s \in SessionIDs |-> NoRecord]
    /\ ans = [a \in Answerers |-> IdleAnswer]
    /\ svc = [c \in Closers |-> IdleServiceClose]
    /\ made = [s \in SessionIDs |-> "none"]
    /\ SocketsInit

\* one session in use: enqueue calls, its tasks, and its close
NextLive ==
    \/ \E c \in Frames, s \in CallIDs : CloseBegin(c, s)
    \/ \E c \in Frames, ok \in BOOLEAN : CloseAdapterDone(c, ok)
    \/ \E c \in Frames : CloseTaskDone(c)
    \/ \E c \in Frames, ok \in BOOLEAN : CloseCtxDone(c, ok)
    \/ \E i \in Incs : TasksStart(i)
    \/ \E i \in Incs, p \in Procs : ProcWake(i, p)
    \/ \E i \in Incs, p \in Procs, ok \in BOOLEAN : ProcSendDone(i, p, ok)
    \/ \E i \in Incs, p \in Procs : ProcResume(i, p)
    \/ \E i \in Incs, p \in Procs : ProcCancelled(i, p)
    \/ \E i \in Incs, ev \in {AudioEvent, TextEvent, InterruptedEvent} :
          ListenerEvent(i, ev, MaxEvents)
    \/ \E i \in Incs, e \in BOOLEAN : ListenerTurnEnd(i, e)
    \/ \E i \in Incs : ListenerCancelled(i)
    \/ \E s \in CallIDs : queue_audio(s, MaxPuts)
    \/ \E s \in CallIDs : queue_text(s, MaxPuts)
    \/ \E s \in CallIDs, m \in {"image", "other"} :
          queue_image(s, m, MaxPuts)
    \/ \E i \in Incs : handle_video_frame(i, MaxPuts)
    \/ \E i \in Incs : handle_audio_frame(i, MaxPuts)

SpecLive == InitLive /\ [][NextLive]_vars

\* no task ever runs: the caller enqueues without yielding to the run loop
NextNoDrain ==
    \/ \E s \in CallIDs :
          /\ Len(offers[1].audio) < MaxAudioCalls
          /\ queue_audio(s, MaxAudioCalls + MaxPuts)
    \/ \E s \in CallIDs, m \in {"image", "other"} :
          /\ Len(offers[1].media) < MaxPuts
          /\ queue_image(s, m, MaxAudioCalls + MaxPuts)

SpecNoDrain == InitLive /\ [][NextNoDrain]_vars

\* enqueue calls and the two Send Processors of one session, nothing else
NextIngress ==
    \/ \E i \in Incs : TasksStart(i)
    \/ \E i \in Incs, p \in Procs : ProcWake(i, p)
    \/ \E i \in Incs, p \in Procs, ok \in BOOLEAN : ProcSendDone(i, p, ok)
    \/ \E i \in Incs, p \in Procs : ProcResume(i, p)
    \/ \E s \in CallIDs : queue_audio(s, MaxPuts + 1)
    \/ \E s \in CallIDs : queue_text(s, MaxPuts + 1)
    \/ \E s \in CallIDs, m \in {"image", "other"} :
          queue_image(s, m, MaxPuts + 1)

SpecIngress == InitLive /\ [][NextIngress]_vars

\* The run loop runs every ready task in turn, and a forward that was started
\* on a responsive Dialogue Connection returns or raises.
ProcFair(p) ==
    /\ WF_vars(ProcWake(1, p))
    /\ WF_vars(ProcResume(1, p))
    /\ WF_vars(\E ok \in BOOLEAN : ProcSendDone(1, p, ok))

SpecFair ==
    SpecIngress /\ WF_vars(TasksStart(1)) /\ ProcFair("audio") /\ ProcFair("media")

\* the same with a Dialogue Connection that may never answer a media forward
SpecAudioFair == SpecIngress /\ WF_vars(TasksStart(1)) /\ ProcFair("audio")

\* the Response Listener of one session and the events of its connection
NextListen ==
    \/ \E i \in Incs : TasksStart(i)
    \/ \E i \in Incs, ev \in Events : ListenerEvent(i, ev, MaxHeard)
    \/ \E i \in Incs, e \in BOOLEAN : ListenerTurnEnd(i, e)

SpecListen == InitLive /\ [][NextListen]_vars

\* Two sessions as create_webrtc_session returns them: everything
\* registered, the tasks created and not yet run.
InitTwo ==
    /\ stores = [m \in StoreNames |-> [s \in SessionIDs |-> IF s <= 2 THEN s ELSE 0]]
    /\ nextInc = 2
    /\ incSid = [i \in Incs |-> IF i <= 2 THEN i ELSE 0]
    /\ ctx = [i \in Incs |-> IF i <= 2 THEN "open" ELSE "none"]
    /\ adapter = [i \in Incs |-> IF i <= 2 THEN "open" ELSE "none"]
    /\ task = [i \in Incs |-> [r \in Roles |-> IF i <= 2 THEN NewTask ELSE NoTask]]
    /\ queue = [i \in Incs |-> [p \in Procs |-> <<>>]]
    /\ unfinished = [i \in Incs |-> [p \in Procs |-> 0]]
    /\ stats = [i \in Incs |-> ZeroStats]
    /\ offers = [i \in Incs |-> [p \in Procs |-> <<>>]]
    /\ log = [i \in Incs |-> [p \in Procs |-> <<>>]]
    /\ cl = [c \in Frames |-> IdleFrame]
    /\ cr = [IdleCreate EXCEPT !.pc = "ret", !.sid = 2, !.inc = 2,
                               !.result = "ok", !.stage = "open"]
    /\ hot = HotNone
    /\ nevents = 0
    /\ heard = [i \in Incs |-> <<>>]
    /\ redis = [s \in SessionIDs |-> NoRecord]
    /\ ans = [a \in Answerers |-> IdleAnswer]
    /\ svc = [c \in Closers |-> IdleServiceClose]
    /\ made = [s \in SessionIDs |-> "none"]
    /\ SocketsInit

\* shutdown: the sessions' tasks, close_all_sessions, the close_session
\* calls it gathers, an explicit close_session and enqueue calls
NextShutdown ==
    \/ \E i \in Incs : TasksStart(i)
    \/ close_all_sessions(MaxOpsAll, TRUE)
    \/ \E c \in Frames, s \in SessionIDs : CloseBegin(c, s)
    \/ \E c \in Frames, ok \in BOOLEAN : CloseAdapterDone(c, ok)
    \/ \E c \in Frames : CloseTaskDone(c)
    \/ \E c \in Frames, ok \in BOOLEAN : CloseCtxDone(c, ok)
    \/ \E i \in Incs, p \in Procs : ProcWake(i, p)
    \/ \E i \in Incs, p \in Procs, ok \in BOOLEAN : ProcSendDone(i, p, ok)
    \/ \E i \in Incs, p \in Procs : ProcResume(i, p)
    \/ \E i \in Incs, p \in Procs : ProcCancelled(i, p)
    \/ \E i \in Incs, e \in BOOLEAN : ListenerTurnEnd(i, e)
    \/ \E i \in Incs : ListenerCancelled(i)
    \/ \E s \in SessionIDs : queue_audio(s, MaxPuts)
    \/ \E s \in SessionIDs : queue_image(s, "image", MaxPuts)

SpecShutdown == InitTwo /\ [][NextShutdown]_vars

\* ---- SessionService -----------------------------------------------------
PlainVars ==
    <<nextInc, incSid, ctx, adapter, task, queue, unfinished, stats, offers,
      log, cl, cr, hot, nevents, heard, made, SocketVars>>

\* lines 61-66: set_webrtc_answer up to `await self.redis_client.get`
AnswerBegin(a, sid) ==
    /\ Free
    /\ ans[a].pc = "idle"
    /\ IF a = 1 THEN TRUE ELSE ans[a - 1].pc # "idle"
    /\ ans' = [ans EXCEPT ![a] =
                 [IdleAnswer EXCEPT
                    !.pc = "get", !.sid = sid,
                    !.had = EntriesOf(sid) # {},
                    !.prev = IF a = 1 THEN "none" ELSE ans[a - 1].result]]
    /\ UNCHANGED <<stores, redis, svc>>
    /\ UNCHANGED PlainVars

\* the key-value store serves the GET of line 66
AnswerGet(a) ==
    /\ Free
    /\ ans[a].pc = "get"
    /\ ans' = [ans EXCEPT ![a].pc = "got", ![a].data = redis[ans[a].sid]]
    /\ UNCHANGED <<stores, redis, svc>>
    /\ UNCHANGED PlainVars

\* when the lookup treats the record and the manager as present
MissingRecordOnly(data, wm) == data.status = "absent"

\* lines 68 and 74: `not session_data_str`, `not webrtc_manager`
Missing(data, wm) == data.status = "absent" \/ wm = 0

\* lines 68-84: both lookups, then WebRTCManager.set_answer is awaited
AnswerLookup(a) ==
    /\ Free
    /\ ans[a].pc = "got"
    /\ LET wm == stores.webrtc_managers[ans[a].sid] IN
       ans' = [ans EXCEPT ![a] =
                 IF Missing(ans[a].data, wm)
                 THEN [@ EXCEPT !.pc = "ret",
                                !.result = "HTTP_404_NOT_FOUND"]
                 ELSE [@ EXCEPT !.pc = "set_answer", !.ref = wm]]
    /\ UNCHANGED <<stores, redis, svc>>
    /\ UNCHANGED PlainVars

\* WebRTCManager.set_answer returns or raises (lines 83-95, 229-232): on
\* return the SET of line 95 is awaited
AnswerAdapterDone(a, ok) ==
    /\ Free
    /\ ans[a].pc = "set_answer"
    /\ ans' = [ans EXCEPT ![a] =
                 IF ok
                 THEN [@ EXCEPT !.pc = "set"]
                 ELSE [@ EXCEPT !.pc = "ret",
                                !.result = "HTTP_400_BAD_REQUEST"]]
    /\ UNCHANGED <<stores, redis, svc>>
    /\ UNCHANGED PlainVars

\* a record written back as it was read
SameRecord(data) == data

\* lines 93-95: status "active", set without ex
ActiveRecord(data) == [status |-> "active", ex |-> 0]

\* the key-value store serves the SET of line 95; the call returns
AnswerSet(a) ==
    /\ Free
    /\ ans[a].pc = "set"
    /\ redis' = [redis EXCEPT ![ans[a].sid] = ActiveRecord(ans[a].data)]
    /\ ans' = [ans EXCEPT ![a].pc = "ret", ![a].result = "ok"]
    /\ UNCHANGED <<stores, svc>>
    /\ UNCHANGED PlainVars

\* a key set with ex reaches its expiry
Expire(sid) ==
    /\ Free
    /\ redis[sid].ex # 0
    /\ redis' = [redis EXCEPT ![sid] = NoRecord]
    /\ UNCHANGED <<stores, ans, svc>>
    /\ UNCHANGED PlainVars

\* SessionService.close_session, lines 100-102: after the client's
\* close_session has returned the key is deleted
ServiceCloseDelete(c) ==
    /\ Free
    /\ cl[c].pc = "ret"
    /\ svc[c].pc = "local"
    /\ redis' = [redis EXCEPT ![cl[c].sid] = NoRecord]
    /\ svc' = [svc EXCEPT ![c] =
                 [pc |-> "ret",
                  ret |-> cl[c].ret \/ redis[cl[c].sid].status # "absent"]]
    /\ UNCHANGED <<stores, ans>>
    /\ UNCHANGED PlainVars

\* uuid4 of line 25: an id no create_session was called with before
Fresh(sid) ==
    /\ made[sid] = "none"
    /\ cr.sid # sid
    /\ \A i \in Incs : incSid[i] # sid

\* SessionService.create_session, lines 25-39: a fresh id, then
\* create_webrtc_session is awaited
ServiceCreateBegin(sid) ==
    /\ Fresh(sid)
    /\ cr.pc = "ret" => made[cr.sid] # "none"
    /\ CreateBegin(sid)

\* lines 41-53: create_webrtc_session has returned; without a manager the
\* call ends with HTTP 500, with one the SET of lines 51-53 is awaited
ServiceCreateResume ==
    /\ Free
    /\ cr.pc = "ret"
    /\ made[cr.sid] = "none"
    /\ made' = [made EXCEPT ![cr.sid] =
                  IF cr.result = "ok" THEN "set" ELSE "failed"]
    /\ UNCHANGED <<stores, nextInc, incSid, ctx, adapter, task, queue,
                   unfinished, stats, offers, log, cl, cr, hot, nevents,
                   heard, redis, ans, svc, SocketVars>>

\* the key-value store serves the SET of lines 51-53; the offer is created
\* and the call returns (lines 55-59)
ServiceCreateSet(sid) ==
    /\ Free
    /\ made[sid] = "set"
    /\ redis' = [redis EXCEPT ![sid] = PendingRecord]
    /\ made' = [made EXCEPT ![sid] = "ret"]
    /\ UNCHANGED <<stores, nextInc, incSid, ctx, adapter, task, queue,
                   unfinished, stats, offers, log, cl, cr, hot, nevents,
                   heard, ans, svc, SocketVars>>

\* the records' life: create_session, set_webrtc_answer and the expiry,
\* with no close_session
NextRecord ==
    \/ \E s \in SessionIDs : ServiceCreateBegin(s)
    \/ \E o \in {"ok", "invalid_status", "runtime_error"} : CreateConnected(o)
    \/ \E i \in Incs : TasksStart(i)
    \/ ServiceCreateResume
    \/ \E s \in SessionIDs : ServiceCreateSet(s)
    \/ \E a \in Answerers, s \in SessionIDs : AnswerBegin(a, s)
    \/ \E a \in Answerers : AnswerGet(a)
    \/ \E a \in Answerers : AnswerLookup(a)
    \/ \E a \in Answerers, ok \in BOOLEAN : AnswerAdapterDone(a, ok)
    \/ \E a \in Answerers : AnswerSet(a)
    \/ \E s \in SessionIDs : Expire(s)

\* time passes: a key set with ex does not stay forever
SpecRecord ==
    Init /\ [][NextRecord]_vars /\ \A s \in SessionIDs : WF_vars(Expire(s))

\* SessionService.create_session has returned its first session: the
\* client's session registered, the record pending with its expiry
InitAnswer ==
    /\ stores = [m \in StoreNames |-> [s \in SessionIDs |-> IF s = 1 THEN 1 ELSE 0]]
    /\ nextInc = 1
    /\ incSid = [i \in Incs |-> IF i = 1 THEN 1 ELSE 0]
    /\ ctx = [i \in Incs |-> IF i = 1 THEN "open" ELSE "none"]
    /\ adapter = [i \in Incs |-> IF i = 1 THEN "open" ELSE "none"]
    /\ task = [i \in Incs |-> [r \in Roles |-> IF i = 1 THEN NewTask ELSE NoTask]]
    /\ queue = [i \in Incs |-> [p \in Procs |-> <<>>]]
    /\ unfinished = [i \in Incs |-> [p \in Procs |-> 0]]
    /\ stats = [i \in Incs |-> ZeroStats]
    /\ offers = [i \in Incs |-> [p \in Procs |-> <<>>]]
    /\ log = [i \in Incs |-> [p \in Procs |-> <<>>]]
    /\ cl = [c \in Frames |-> IdleFrame]
    /\ cr = [IdleCreate EXCEPT !.pc = "ret", !.sid = 1, !.inc = 1,
                               !.result = "ok", !.stage = "open"]
    /\ hot = HotNone
    /\ nevents = 0
    /\ heard = [i \in Incs |-> <<>>]
    /\ redis = [s \in SessionIDs |-> IF s = 1 THEN PendingRecord ELSE NoRecord]
    /\ ans = [a \in Answerers |-> IdleAnswer]
    /\ svc = [c \in Closers |-> IdleServiceClose]
    /\ made = [s \in SessionIDs |-> IF s = 1 THEN "ret" ELSE "none"]
    /\ SocketsInit

\* the handshake: set_webrtc_answer calls, the record's expiry, and the
\* service's close_session of a session nothing was enqueued for (its Send
\* Processors wait in queue.get(), so no close reaches context.aclose())
NextAnswer ==
    \/ \E i \in Incs : TasksStart(i)
    \/ \E a \in Answerers, s \in SessionIDs : AnswerBegin(a, s)
    \/ \E a \in Answerers : AnswerGet(a)
    \/ \E a \in Answerers : AnswerLookup(a)
    \/ \E a \in Answerers, ok \in BOOLEAN : AnswerAdapterDone(a, ok)
    \/ \E a \in Answerers : AnswerSet(a)
    \/ \E s \in SessionIDs : Expire(s)
    \/ \E c \in Closers, s \in SessionIDs : CloseBegin(c, s)
    \/ \E c \in Closers, ok \in BOOLEAN : CloseAdapterDone(c, ok)
    \/ \E c \in Closers : CloseTaskDone(c)
    \/ \E i \in Incs, p \in Procs : ProcCancelled(i, p)
    \/ \E i \in Incs : ListenerCancelled(i)
    \/ \E c \in Closers : ServiceCloseDelete(c)

SpecAnswer == InitAnswer /\ [][NextAnswer]_vars

\* ---- ConnectionManager (connection_manager.py) ---------------------------

SessionVars ==
    <<stores, nextInc, incSid, ctx, adapter, task, queue, unfinished, stats,
      offers, log, cl, cr, hot, nevents, heard, redis, ans, svc, made>>

\* lines 22-26: the entry under the id is deleted, whoever registered it
disconnect(ac, sid) == [ac EXCEPT ![sid] = 0]

OutboundPutDropOldest(q, item) == QueuePutDropOldest(q, OutboundMaxsize, item)

\* lines 32-37: put_nowait on the connection's queue (maxsize 100, line 17),
\* QueueFull is logged
OutboundPut(q, item) == QueuePut(q, OutboundMaxsize, item)

\* session.py lines 74-78, connection_manager.py line 16: websocket_endpoint
\* is called and waits in websocket.accept()
WsConnectBegin(c, sid) ==
    /\ sockets[c].pc = "new"
    /\ IF c = 1 THEN TRUE ELSE sockets[c - 1].pc # "new"
    /\ sockets' = [sockets EXCEPT ![c] = [@ EXCEPT !.pc = "accept", !.sid = sid]]
    /\ UNCHANGED <<active_connections, casts>>
    /\ UNCHANGED SessionVars

\* lines 17-20, session.py line 79, lines 53-55: accept has returned; the
\* queue is created and registered under the id, replacing any entry, and
\* consumer_task waits in get() on the empty queue
WsConnected(c) ==
    /\ sockets[c].pc = "accept"
    /\ active_connections' =
          [active_connections EXCEPT ![sockets[c].sid] = c]
    /\ sockets' = [sockets EXCEPT ![c] = [@ EXCEPT !.pc = "get"]]
    /\ UNCHANGED casts
    /\ UNCHANGED SessionVars

\* lines 54-55: the loop's get(), which suspends only on an empty queue
ConsumerNext(sk) ==
    IF sk.q = <<>>
    THEN [sk EXCEPT !.pc = "get", !.hand = 0]
    ELSE [sk EXCEPT !.pc = "send", !.hand = Head(sk.q), !.q = Tail(sk.q)]

\* line 55: the consumer waiting in get() is resumed with an item
ConsumerWake(c) ==
    /\ sockets[c].pc = "get"
    /\ sockets[c].q # <<>>
    /\ sockets' = [sockets EXCEPT ![c] = ConsumerNext(@)]
    /\ UNCHANGED <<active_connections, casts>>
    /\ UNCHANGED SessionVars

\* the consumer's end, lines 58-61: the exception is logged and the
\* `finally` calls disconnect with the id
ConsumerEnd(c) ==
    /\ sockets' = [sockets EXCEPT ![c] = [@ EXCEPT !.pc = "done"]]
    /\ active_connections' = disconnect(active_connections, sockets[c].sid)

\* lines 56-61: send_bytes returns and the loop goes on, or it raises
ConsumerSendDone(c, ok) ==
    /\ sockets[c].pc = "send"
    /\ IF ok
       THEN /\ sockets' = [sockets EXCEPT ![c] =
                  ConsumerNext([@ EXCEPT !.sent = Append(@, sockets[c].hand)])]
            /\ UNCHANGED active_connections
       ELSE ConsumerEnd(c)
    /\ UNCHANGED casts
    /\ UNCHANGED SessionVars

\* lines 60-61: the endpoint's task is cancelled where it is suspended
ConsumerCancelled(c) ==
    /\ sockets[c].pc \in {"get", "send"}
    /\ ConsumerEnd(c)
    /\ UNCHANGED casts
    /\ UNCHANGED SessionVars

\* lines 28-39, called by on_audio_received (session_service.py lines 27-28)
\* with the session's id: one call, from its first line to its return.  The
\* packet is named by its place among the session's broadcast calls.
broadcast(sid, limit) ==
    LET c == active_connections[sid]
        id == Len(casts[sid]) + 1
    IN  /\ id <= limit
        /\ IF c = 0
           THEN /\ casts' = [casts EXCEPT ![sid] =
                                Append(@, [conn |-> 0, ok |-> FALSE])]
                /\ UNCHANGED sockets
           ELSE LET r == OutboundPut(sockets[c].q, id)
                IN  /\ sockets' = [sockets EXCEPT ![c].q = r.q]
                    /\ casts' = [casts EXCEPT ![sid] =
                                    Append(@, [conn |-> c, ok |-> r.ok])]
        /\ UNCHANGED active_connections
        /\ UNCHANGED SessionVars

\* the WebSocket connections of one session id and the audio broadcast to it
NextOutbound ==
    \/ \E c \in Conns, s \in CallIDs : WsConnectBegin(c, s)
    \/ \E c \in Conns : WsConnected(c)
    \/ \E c \in Conns : ConsumerWake(c)
    \/ \E c \in Conns, ok \in BOOLEAN : ConsumerSendDone(c, ok)
    \/ \E c \in Conns : ConsumerCancelled(c)
    \/ \E s \in CallIDs : broadcast(s, MaxCasts)

SpecOutbound == Init /\ [][NextOutbound]_vars

\* one WebSocket connection and enough broadcast calls to fill its queue; of
\* the calls made while nothing is registered only the first few are followed
NextOutboundFull ==
    \/ \E s \in CallIDs : WsConnectBegin(1, s)
    \/ WsConnected(1)
    \/ ConsumerWake(1)
    \/ \E ok \in BOOLEAN : ConsumerSendDone(1, ok)
    \/ ConsumerCancelled(1)
    \/ \E s \in CallIDs :
          broadcast(s, IF active_connections[s] = 0 THEN MaxCasts
                                                    ELSE MaxCastsFull)

SpecOutboundFull == Init /\ [][NextOutboundFull]_vars

\* one step of an operation on session sid: the service's create_session, the
\* session's tasks, an enqueue, set_webrtc_answer, or the service's
\* close_session
StepOn(sid) ==
    \/ ServiceCreateBegin(sid)
    \/ cr.sid = sid /\ \E o \in {"ok", "runtime_error"} : CreateConnected(o)
    \/ cr.sid = sid /\ ServiceCreateResume
    \/ ServiceCreateSet(sid)
    \/ \E i \in Incs : incSid[i] = sid /\ TasksStart(i)
    \/ \E i \in Incs, p \in Procs : incSid[i] = sid /\ ProcWake(i, p)
    \/ \E i \in Incs, p \in Procs, ok \in BOOLEAN :
          incSid[i] = sid /\ ProcSendDone(i, p, ok)
    \/ \E i \in Incs, p \in Procs : incSid[i] = sid /\ ProcResume(i, p)
    \/ \E i \in Incs, p \in Procs : incSid[i] = sid /\ ProcCancelled(i, p)
    \/ \E i \in Incs : incSid[i] = sid /\ ListenerEvent(i, AudioEvent, MaxEvents)
    \/ \E i \in Incs : incSid[i] = sid /\ ListenerCancelled(i)
    \/ queue_audio(sid, MaxPuts)
    \/ AnswerBegin(1, sid)
    \/ ans[1].sid = sid /\ AnswerGet(1)
    \/ ans[1].sid = sid /\ AnswerLookup(1)
    \/ ans[1].sid = sid /\ \E ok \in BOOLEAN : AnswerAdapterDone(1, ok)
    \/ ans[1].sid = sid /\ AnswerSet(1)
    \/ CloseBegin(1, sid)
    \/ cl[1].sid = sid /\ \E ok \in BOOLEAN : CloseAdapterDone(1, ok)
    \/ cl[1].sid = sid /\ CloseTaskDone(1)
    \/ cl[1].sid = sid /\ ServiceCloseDelete(1)

\* two session ids: one session is live, the other is created (or fails to
\* be), and operations on the two interleave
NextIsolation == \E sid \in SessionIDs : StepOn(sid)

SpecIsolation == InitAnswer /\ [][NextIsolation]_vars

\* two sessions whose callbacks may raise: events for the listeners, audio
\* for the Send Processors, forwards that succeed or fail
NextCallbacks ==
    \/ \E i \in Incs : TasksStart(i)
    \/ \E i \in Incs, ev \in {AudioEvent, TextEvent} :
          ListenerEvent(i, ev, MaxPuts)
    \/ \E i \in Incs, ev \in {AudioEvent, TextEvent} :
          ListenerEventRaising(i, ev, MaxPuts)
    \/ \E s \in SessionIDs : queue_audio(s, MaxPuts)
    \/ \E i \in Incs, p \in Procs : ProcWake(i, p)
    \/ \E i \in Incs, p \in Procs, ok \in BOOLEAN : ProcSendDone(i, p, ok)
    \/ \E i \in Incs, p \in Procs : ProcSendFailedRaising(i, p)
    \/ \E i \in Incs, p \in Procs : ProcResume(i, p)

SpecCallbacks == InitTwo /\ [][NextCallbacks]_vars

\* ---- properties ---------------------------------------------------------

\* a task created by an incarnation finds, at its first run, its own
\* incarnation's objects in the stores, or none
BindOwn ==
    \A i \in Incs : \A r \in Roles :
        task[i][r].pc = "new" => stores.sessions[incSid[i]] \in {0, i}

\* explicit close_session calls

\* frame c is the only close_session call made so far, on the only session
\* created so far, and neither the adapter nor the exit stack raised in it
Alone(c) ==
    /\ nextInc = 1
    /\ cr.pc = "ret"
    /\ cr.result = "ok"
    /\ \A d \in Closers \ {c} : cl[d].pc = "idle"
    /\ cl[c].exc \notin {"adapter", "ctx"}

Returned(c) == cl[c].pc = "ret" /\ cl[c].inc # 0

\* C1: when close_session has returned for a known session, its listener
\* and both processors have terminated, its exit stack is released and no
\* store map holds an entry of the session.
C1_ClosedMeansTornDown ==
    \A c \in Closers :
        (Returned(c) /\ Alone(c)) =>
            /\ AllTerminal(cl[c].inc)
            /\ ctx[cl[c].inc] = "released"
            /\ EntriesOf(cl[c].sid) = {}

\* C2: of two close_session calls made one after the other on a session
\* that was created, the first returns true and the second returns false.
C2_TrueThenFalse ==
    \A c \in Closers : \A d \in Closers \ {c} :
        ( /\ nextInc = 1
          /\ cr.pc = "ret"
          /\ cr.result = "ok"
          /\ Returned(c)
          /\ cl[c].exc \notin {"adapter", "ctx"}
          /\ cl[d].inc = 0
          /\ \A e \in Closers \ {c, d} : cl[e].pc = "idle" )
        => /\ cl[c].ret = TRUE
           /\ cl[d].pc = "ret" => cl[d].ret = FALSE

\* C3: when a teardown step of close_session raised, the remaining steps
\* were still carried out: the tasks have terminated, the exit stack is
\* released (unless releasing it is what raised) and the entries are gone.
C3_TeardownIsTotal ==
    \A c \in Closers :
        ( /\ Returned(c)
          /\ cl[c].exc \in {"adapter", "task", "ctx"}
          /\ nextInc = 1
          /\ \A d \in Closers \ {c} : cl[d].pc = "idle" )
        => /\ AllTerminal(cl[c].inc)
           /\ cl[c].exc # "ctx" => ctx[cl[c].inc] = "released"
           /\ EntriesOf(cl[c].sid) = {}

InTeardown(c) == cl[c].pc \in {"adapter", "listener", "audio", "media", "ctx"}

\* C4: no two close_session calls are inside the teardown sequence of the
\* same incarnation of a session at the same time.
C4_OneTeardownAtATime ==
    \A c \in Closers : \A d \in Closers \ {c} :
        ~(InTeardown(c) /\ InTeardown(d) /\ cl[c].inc = cl[d].inc)

\* C5: when create_webrtc_session found a live session under its id, then
\* from the moment it registers anything of the new session the prior one
\* is fully closed: tasks terminated, exit stack released, adapter closed.
C5_PriorClosedFirst ==
    ( /\ cr.prior # 0
      /\ cr.pc \in {"connect", "ret"}
      /\ \A c \in Closers : cl[c].pc = "idle"
      /\ adapter[cr.prior] # "failed"
      /\ ctx[cr.prior] # "broken" )
    => /\ AllTerminal(cr.prior)
       /\ ctx[cr.prior] = "released"
       /\ adapter[cr.prior] = "closed"

\* C6: when create_webrtc_session has reported that the connect failed, no
\* store map holds an entry for the id and no task was spawned for it.
C6_FailedOpenLeavesNothing ==
    ( /\ cr.pc = "ret"
      /\ cr.stage = "open"
      /\ cr.result # "ok"
      /\ nextInc = 1
      /\ \A c \in Closers : cl[c].pc = "idle" )
    => /\ EntriesOf(cr.sid) = {}
       /\ \A r \in Roles : task[cr.inc][r].pc = "none"

\* C9: a close_session that began while both Send Processors were inside a
\* forward that does not return leaves, when it returns, the listener and
\* both processors terminated.
C9_MidSendCloseStopsTasks ==
    \A c \in Closers :
        (cl[c].pc = "ret" /\ cl[c].mid) => AllTerminal(cl[c].inc)

\* an incarnation that was registered and has no entry in any map any more
Removed(i) == adapter[i] # "none" /\ EntriesOfInc(i) = {}

\* C10: a close_session closes the adapter before it cancels the listener,
\* has the listener terminated before it cancels a processor, has all three
\* tasks terminated before it releases the exit stack, and removes the
\* entries of the session only after all of that.
C10_TeardownOrder ==
    \A c \in Closers :
        (cl[c].inc # 0 /\ Alone(c)) =>
            LET i == cl[c].inc IN
            /\ cl[c].pc \in {"listener", "audio", "media", "ctx"}
                  => adapter[i] = "closed"
            /\ cl[c].pc \in {"audio", "media", "ctx"}
                  => task[i].listener.pc \in Terminal
            /\ cl[c].pc = "ctx" => AllTerminal(i)
            /\ Removed(i) =>
                  /\ adapter[i] = "closed"
                  /\ AllTerminal(i)
                  /\ ctx[i] = "released"

\* ---- the bounded queues ---------------------------------------------------

\* the media frames taken by the media processor and forwarded
Forwarded(n) == log[1].media[n].st # "skipped"

\* C7 (as the specification has it): whenever the media processor takes a
\* frame to forward, it is the most recently offered one; the frames offered
\* before it were dropped.
C7_NewestFrameForwarded ==
    \A n \in 1..Len(log[1].media) :
        Forwarded(n) => log[1].media[n].id = log[1].media[n].newest

\* C7 (as the code has it): the capacity-1 media queue keeps the frame it
\* holds and rejects the ones offered while it is full.  The frame the media
\* processor takes was accepted by queue_image, every frame offered after it
\* and before it was taken was rejected, no accepted frame is lost, and no
\* rejected frame is ever taken or queued.
C7_OldestFrameForwarded ==
    LET o == offers[1].media
        lg == log[1].media
        q == queue[1].media
        Held(k) == \/ \E n \in 1..Len(lg) : lg[n].id = k
                   \/ \E n \in 1..Len(q) : q[n].id = k
    IN  /\ Len(q) <= 1
        /\ \A n \in 1..Len(lg) :
              /\ lg[n].id \in 1..Len(o)
              /\ o[lg[n].id]
              /\ \A k \in (lg[n].id + 1)..lg[n].newest : ~o[k]
        /\ \A k \in 1..Len(o) : o[k] <=> Held(k)

\* an image was forwarded that had waited in the queue while a later
\* queue_image call was made
C7_OverflowThenForward ==
    \E n \in 1..Len(log[1].media) :
        /\ log[1].media[n].k = "image"
        /\ log[1].media[n].st = "sent"
        /\ log[1].media[n].newest > log[1].media[n].id

\* C8: with no processor taking from the audio queue, the k-th queue_audio
\* call on a live session succeeds exactly when k <= 50; the queue holds the
\* accepted chunks in the order of the calls and nothing else, so a failed
\* call leaves it as it was, and it never holds more than 50 items.  Every
\* call returns in the step that makes it.
C8_FirstFiftyAccepted ==
    LET o == offers[1].audio
        q == queue[1].audio
        n == IF Len(o) < 50 THEN Len(o) ELSE 50
    IN  /\ \A k \in 1..Len(o) : o[k] <=> k <= 50
        /\ Len(q) <= 50
        /\ q = [k \in 1..n |-> [id |-> k, k |-> "audio"]]

\* 60 queue_audio calls have been made on the session and none was taken
C8_SixtyCalls ==
    /\ Len(offers[1].audio) = 60
    /\ Len(queue[1].audio) = 50
    /\ log[1].audio = <<>>

\* ---- registration ---------------------------------------------------------

\* create_webrtc_session returns its adapter in this step
CreateSucceeds == cr.pc = "connect" /\ cr'.pc = "ret" /\ cr'.result = "ok"

\* everything lines 339-403 register for session sid, as incarnation i
Registered(sid, i) ==
    /\ \A m \in StoreNames : stores[m][sid] = i
    /\ queue[i].audio = <<>> /\ Maxsize("audio") = 50
    /\ queue[i].media = <<>> /\ Maxsize("media") = 1
    /\ \A r \in Roles : Running(i, r)
    /\ ctx[i] = "open"
    /\ adapter[i] = "open"
    /\ stats[i] = ZeroStats

\* C11: in the state in which a successful create_webrtc_session returns,
\* every store map has an entry of the new session under its SessionID: the
\* connection, the callbacks, two empty queues of capacity 50 and 1, a
\* running listener, running audio and media processors, the exit stack, the
\* adapter, and four counters at zero.
C11_AllRegistered ==
    [][CreateSucceeds => Registered(cr.sid, cr.inc)']_vars

\* ---- forwarding errors ----------------------------------------------------

\* the forward of processor p raises in this step
FailsNow(p) ==
    /\ task[1][p].pc = "send"
    /\ log'[1][p] # log[1][p]
    /\ log'[1][p][Len(log[1][p])].st # "sent"

\* the n-th item taken by processor p failed and a forwardable item waits
AfterError(p, n) ==
    /\ Len(log[1][p]) = n
    /\ log[1][p][n].st = "error"
    /\ queue[1][p] # <<>>
    /\ Forwards(p, Head(queue[1][p]))

\* processor p has taken an (n+1)-th item and made a forward call for it
ForwardedNext(p, n) ==
    /\ Len(log[1][p]) > n
    /\ log[1][p][n + 1].st \in {"pending", "sent", "error"}

\* C12: when a forward raises in a Send Processor of a live session, the
\* session's on_error is called with the error, no counter changes, and the
\* processor goes on: it is not terminated, and an item waiting in its queue
\* is then taken and forwarded.
C12_FailedForwardHandled ==
    /\ [][\A p \in Procs :
            FailsNow(p) =>
                /\ log'[1][p][Len(log[1][p])].st = "error"
                /\ stats' = stats
                /\ task'[1][p].pc \notin Terminal]_vars
    /\ \A p \in Procs : \A n \in 1..(MaxPuts + 1) :
          AfterError(p, n) ~> ForwardedNext(p, n)

\* a forward failed and the item enqueued after it was forwarded
C12_SentAfterError ==
    \E p \in Procs : \E n \in 1..MaxPuts :
        /\ Len(log[1][p]) > n
        /\ log[1][p][n].st = "error"
        /\ log[1][p][n].k # "text"
        /\ log[1][p][n + 1].st = "sent"
        /\ log[1][p][n + 1].id > log[1][p][n].id

\* ---- the listener's end ---------------------------------------------------

\* no close_session has been called
NoCloseCalled == \A c \in Frames : cl[c].pc = "idle"

\* C13: once the Response Listener of a live session has ended on a
\* connection error it stays ended (it is not started again), and as long as
\* close_session has not been called the SessionID keeps its entry in every
\* store map and neither Send Processor has terminated.
C13_ListenerEndClosesNothing ==
    /\ [](task[1].listener.pc = "done" /\ NoCloseCalled
            => /\ \A m \in StoreNames : stores[m][1] = 1
               /\ \A p \in Procs : Running(1, p)
               /\ ctx[1] = "open" /\ adapter[1] = "open")
    /\ [][task[1].listener.pc = "done" => task'[1].listener.pc = "done"]_vars

\* the listener has ended on an error, nobody closed the session, and the
\* audio processor has since taken an item and is forwarding it
C13_ForwardingWithoutListener ==
    /\ task[1].listener.pc = "done"
    /\ NoCloseCalled
    /\ task[1].audio.pc = "send"
    /\ task[1].media.pc = "get"

\* ---- events of the Dialogue Connection ------------------------------------

\* the events received so far that are not interrupted and carry audio
AudioHeard(i) ==
    {n \in 1..Len(heard[i]) :
        ~heard[i][n].ev.interrupted /\ heard[i][n].ev.data}

\* C14: for an event marked interrupted neither on_audio nor on_text is
\* called, whatever it carries; for an event not marked interrupted that
\* carries audio, on_audio is called exactly once; and audio_received counts
\* exactly the events of the second kind.
C14_InterruptedIsSilent ==
    \A i \in Incs :
        /\ \A n \in 1..Len(heard[i]) :
              LET h == heard[i][n] IN
              /\ h.ev.interrupted => h.on_audio = 0 /\ h.on_text = 0
              /\ ~h.ev.interrupted /\ h.ev.data => h.on_audio = 1
        /\ stats[i].audio_received = Cardinality(AudioHeard(i))

\* an interrupted event with audio was received after an audio event
C14_AudioThenInterrupted ==
    /\ Len(heard[1]) >= 2
    /\ ~heard[1][1].ev.interrupted /\ heard[1][1].ev.data
    /\ heard[1][2].ev.interrupted /\ heard[1][2].ev.data
    /\ stats[1].audio_received = 1

\* ---- order of forwarding --------------------------------------------------

\* C15: the items a Send Processor takes from its queue and forwards are
\* items the enqueue call accepted, each taken once, in the order of the
\* calls that enqueued them.
C15_ForwardedInEnqueueOrder ==
    \A i \in Incs : \A p \in Procs :
        LET lg == log[i][p] IN
        /\ \A n \in 1..Len(lg) :
              lg[n].id \in 1..Len(offers[i][p]) /\ offers[i][p][lg[n].id]
        /\ \A m \in 1..Len(lg) : \A n \in 1..Len(lg) :
              m < n => lg[m].id < lg[n].id

\* two audio/text items waited in the queue together and both were
\* forwarded
C15_TwoQueuedThenForwarded ==
    /\ Len(log[1].audio) >= 2
    /\ log[1].audio[1].newest >= log[1].audio[2].id
    /\ log[1].audio[1].st = "sent"
    /\ log[1].audio[2].st = "sent"

\* ---- independence of the two processors -----------------------------------

\* the forward of the k-th audio/text item offered has returned or raised
AudioForwardDone(k) ==
    \E n \in 1..Len(log[1].audio) :
        log[1].audio[n].id = k /\ log[1].audio[n].st \in {"sent", "error"}

\* C16: with a fair run loop and audio forwards that complete, every
\* audio/text item that queue_audio or queue_text accepted is eventually
\* taken and forwarded, also when the media processor never returns from a
\* forward and the media queue is full.
C16_AudioNotStarved ==
    \A k \in 1..(MaxPuts + 1) :
        (Len(offers[1].audio) >= k /\ offers[1].audio[k])
            ~> AudioForwardDone(k)

\* the media processor is inside a forward, the media queue is full, and an
\* audio item has been forwarded
C16_AudioPastBlockedMedia ==
    /\ task[1].media.pc = "send"
    /\ Len(queue[1].media) = MediaQueueMaxsize
    /\ \E n \in 1..Len(log[1].audio) :
          log[1].audio[n].k = "audio" /\ log[1].audio[n].st = "sent"

\* ---- calls on a session that is gone --------------------------------------

\* an enqueue call is made in this step for an id that has no queue
EnqueueOnUnknown ==
    \E sid \in SessionIDs :
        /\ stores.audio_send_queues[sid] = 0
        /\ stores.media_send_queues[sid] = 0
        /\ \/ queue_audio(sid, MaxCalls)
           \/ queue_text(sid, MaxCalls)
           \/ \E m \in {"image", "other"} : queue_image(sid, m, MaxCalls)

\* a forwarder of the adapter of a closed session runs in this step
ForwarderAfterClose ==
    \E i \in Incs :
        /\ Removed(i)
        /\ handle_video_frame(i, MaxCalls) \/ handle_audio_frame(i, MaxCalls)

\* C17: queue_audio, queue_text and queue_image on an id that has no session
\* change nothing, and a frame forwarder of an adapter whose session was
\* closed creates no store entry and changes none: the maps, the queues and
\* the counters are as before.
C17_GoneSessionIsNoOp ==
    [][(EnqueueOnUnknown \/ ForwarderAfterClose)
          => UNCHANGED <<stores, queue, unfinished, stats>>]_vars

\* the close_session calls gathered by close_all_sessions have all returned
ShutdownReturned ==
    /\ \E c \in Closers : cl[c].all
    /\ \A c \in Closers : cl[c].all => cl[c].pc = "ret"

\* C18: once close_all_sessions has returned, no store map holds an entry
\* for any session id it found in stores.sessions when it was called,
\* whether the close_session of that id returned True or False
C18_ShutdownRemovesAll ==
    ShutdownReturned =>
        \A c \in Closers : cl[c].all => EntriesOf(cl[c].sid) = {}

\* close_all_sessions closed two sessions; WebRTCManager.close() raised in
\* one close_session and the other returned True
C18_ShutdownWithFailure ==
    /\ ShutdownReturned
    /\ \A c \in Closers : cl[c].all
    /\ \E c, d \in Closers :
          /\ cl[c].sid # cl[d].sid
          /\ ~cl[c].ret /\ cl[c].exc = "adapter"
          /\ cl[d].ret
    /\ \A s \in SessionIDs : EntriesOf(s) = {}

\* the set_webrtc_answer call a takes a step
AnswerStep(a) == ans'[a] # ans[a]

\* C19: a set_webrtc_answer call for an id the stores held no entry for
\* when it was made ends with HTTP 404, and no step of it changes a store
\* map or the key-value store
C19_UnknownIsNotFound ==
    [][\A a \in Answerers :
          (AnswerStep(a) /\ ~ans'[a].had) =>
             /\ UNCHANGED <<stores, redis>>
             /\ ans'[a].pc = "ret" => ans'[a].result = "HTTP_404_NOT_FOUND"]_vars

\* a call for an id whose record is still in the key-value store and whose
\* session the stores no longer hold has been answered with HTTP 404
C19_RecordWithoutSession ==
    \E a \in Answerers :
       /\ ans[a].pc = "ret"
       /\ ~ans[a].had
       /\ ans[a].data.status = "pending"
       /\ ans[a].result = "HTTP_404_NOT_FOUND"
       /\ EntriesOf(ans[a].sid) = {}

\* C20: when the adapter accepts the answer of a call that read a pending
\* record, the call ends with the record in status active; when the adapter
\* rejects it, the call ends with HTTP 400 and the step changes neither the
\* record (status and expiry) nor the session's store entries, adapter,
\* exit stack, tasks and queues
C20_AcceptedActivatesRejectedKeeps ==
    [][\A a \in Answerers :
          (AnswerStep(a) /\ ans[a].data.status = "pending") =>
             /\ ans[a].pc = "set" =>
                   /\ ans'[a].pc = "ret" /\ ans'[a].result = "ok"
                   /\ redis'[ans[a].sid].status = "active"
             /\ (ans[a].pc = "set_answer" /\ ans'[a].pc = "ret") =>
                   /\ ans'[a].result = "HTTP_400_BAD_REQUEST"
                   /\ UNCHANGED <<redis, stores, adapter, ctx, task, queue>>]_vars

\* a call rejected with HTTP 400 left the record pending with its expiry,
\* and the call made after it for the same id was accepted: the record is
\* active
C20_RetryAfterRejection ==
    /\ ans[1].pc = "ret" /\ ans[1].result = "HTTP_400_BAD_REQUEST"
    /\ ans[2].pc = "ret" /\ ans[2].result = "ok"
    /\ ans[2].sid = ans[1].sid
    /\ ans[2].prev = "HTTP_400_BAD_REQUEST"
    /\ ans[2].data = PendingRecord
    /\ redis[ans[2].sid].status = "active"
    /\ EntriesOf(ans[2].sid) = StoreNames

\* the values a key holds: none, pending with ex=300, active without ex
RecordShapes == {NoRecord, PendingRecord, ActiveRecord(PendingRecord)}

\* C21: the record of every id is absent, pending with the 300 s expiry or
\* active without expiry; no step takes an active record back to pending;
\* and with no close_session at all a pending record does not stay pending:
\* it is answered or it expires
C21_RecordLifecycle ==
    /\ [](\A s \in SessionIDs : redis[s] \in RecordShapes)
    /\ [][\A s \in SessionIDs :
             redis[s].status = "active" => redis'[s].status # "pending"]_vars
    /\ \A s \in SessionIDs :
          (redis[s].status = "pending") ~> (redis[s].status # "pending")

\* one session was answered and its record is active without expiry; the
\* record of another, never answered, has expired
C21_ActiveAndExpired ==
    \E s, u \in SessionIDs :
       /\ redis[s] = ActiveRecord(PendingRecord)
       /\ made[u] = "ret"
       /\ redis[u] = NoRecord
       /\ \A a \in Answerers : ans[a].sid # u

\* the callback of the n-th event of listener i raised
RaisedAt(i, n) == n \in 1..Len(heard[i]) /\ heard[i][n].raised

\* the on_error called for the n-th item of processor p of i raised
ErrorRaisedAt(i, p, n) ==
    n \in 1..Len(log[i][p]) /\ log[i][p][n].st = "error_raised"

\* a step in which a callback of incarnation i raised
CallbackRaised(i) ==
    \/ Len(heard'[i]) > Len(heard[i]) /\ heard'[i][Len(heard'[i])].raised
    \/ \E p \in Procs :
          /\ task[i][p].pc = "send"
          /\ log'[i][p] # log[i][p]
          /\ log'[i][p][Len(log'[i][p])].st = "error_raised"

\* C22: whatever Exception the on_audio, on_text or on_error callback of a
\* session raises, the Response Listener that called it is still in its
\* loop, the Send Processor that called it has gone on to sleep(0), no task
\* has ended, and the tasks, queues, counters and histories of the other
\* session are as before the step
C22_CallbackErrorsContained ==
    /\ [](\A i \in Incs, r \in Roles : task[i][r].pc \notin Terminal)
    /\ [][\A i \in Incs :
             CallbackRaised(i) =>
                /\ task'[i].listener.pc = task[i].listener.pc
                /\ \A p \in Procs :
                      task'[i][p].pc # task[i][p].pc => task'[i][p].pc = "yield"
                /\ \A j \in Incs \ {i} :
                      /\ task'[j] = task[j]
                      /\ queue'[j] = queue[j]
                      /\ stats'[j] = stats[j]
                      /\ heard'[j] = heard[j]
                      /\ log'[j] = log[j]]_vars

\* a listener whose first callback raised has handled a second event, and
\* an audio processor whose on_error raised has forwarded its next item
C22_LoopsGoOnAfterRaise ==
    \E i, j \in Incs :
       /\ RaisedAt(i, 1) /\ Len(heard[i]) >= 2
       /\ stats[i].audio_received >= 1
       /\ ErrorRaisedAt(j, "audio", 1)
       /\ Len(log[j].audio) >= 2 /\ log[j].audio[2].st = "sent"

\* C23: no step lowers a counter of any session's stats dict; the dict
\* found under an id changes only when create_webrtc_session registers a
\* new one there, with its four counters at zero
C23_CountersOnlyGrow ==
    [][/\ \A i \in Incs, n \in StatNames : stats'[i][n] >= stats[i][n]
       /\ \A s \in SessionIDs :
             LET i == stores.session_stats[s]
                 j == stores'.session_stats[s]
             IN  (j # 0 /\ j # i) =>
                    /\ cr.pc = "connect" /\ cr.sid = s
                    /\ cr'.pc = "ret" /\ cr'.result = "ok"
                    /\ stats'[j] = ZeroStats]_vars

\* the first session of an id has counted something; the session created
\* again under the id has its four counters at zero
C23_RecreatedAtZero ==
    \E s \in SessionIDs :
       /\ stores.session_stats[s] = 2
       /\ incSid[1] = s
       /\ stats[2] = ZeroStats
       /\ \E n \in StatNames : stats[1][n] > 0

\* frame c is a close_session call under way on the session it found
CloseUnderWay(c) == cl[c].pc \notin {"idle", "spawned", "ret"} /\ cl[c].inc # 0

\* C24: a step of a close_session call that began on incarnation i of an id
\* requests no cancellation of a task of another incarnation, does not
\* touch another incarnation's exit stack and removes no store entry of
\* another incarnation
C24_CloseKeepsToItsIncarnation ==
    [][\A c \in Frames :
          (CloseUnderWay(c) /\ cl'[c] # cl[c]) =>
             \A j \in Incs \ {cl[c].inc} :
                /\ \A r \in Roles : task'[j][r].cancel => task[j][r].cancel
                /\ ctx'[j] = ctx[j]
                /\ \A m \in StoreNames, s \in SessionIDs :
                      stores[m][s] = j => stores'[m][s] = j]_vars

\* C25: when a close_session of the service has returned, the key-value
\* store holds no record for its id, whatever set_webrtc_answer calls were
\* under way for the id in the meantime
C25_ClosedLeavesNoRecord ==
    \A c \in Closers : svc[c].pc = "ret" => redis[cl[c].sid] = NoRecord

\* the items of kind k that processor p of incarnation i has forwarded
\* successfully
SentItems(i, p, k) ==
    {n \in 1..Len(log[i][p]) : log[i][p][n].k = k /\ log[i][p][n].st = "sent"}

\* C26: in every state the audio_sent counter of a session is the number of
\* audio chunks its audio processor has forwarded successfully, and
\* images_sent the number of images its media processor has forwarded
\* successfully, whether the items came through queue_audio / queue_image
\* or through the adapter's forwarders
C26_CountersMatchForwards ==
    \A i \in Incs :
       /\ stats[i].audio_sent = Cardinality(SentItems(i, "audio", "audio"))
       /\ stats[i].images_sent = Cardinality(SentItems(i, "media", "image"))

\* a forward call was made for the k-th item offered to the media queue and
\* it has returned or raised
MediaForwardDone(k) ==
    \E n \in 1..Len(log[1].media) :
        log[1].media[n].id = k /\ log[1].media[n].st \in {"sent", "error"}

\* C27: no item is taken from the media queue without a forward call being
\* made for it, and every item queue_image accepted, of whatever mime type,
\* is eventually taken and forwarded
C27_AcceptedImagesForwarded ==
    /\ [](\A n \in 1..Len(log[1].media) : log[1].media[n].st # "skipped")
    /\ \A k \in 1..(MaxPuts + 1) :
          (Len(offers[1].media) >= k /\ offers[1].media[k])
              ~> MediaForwardDone(k)

\* what the client holds for session sid: its store entries and the queues,
\* tasks and counters of its incarnations
Held(sid) ==
    [entries |-> [m \in StoreNames |-> stores[m][sid]],
     objects |-> [i \in Incs |->
                    IF incSid[i] = sid
                    THEN <<queue[i], task[i], stats[i]>>
                    ELSE <<>>]]

\* C28: for distinct session ids A and B, a step of an operation on A (an
\* enqueue, a task's step, set_webrtc_answer, close_session, create_session
\* failing or not) leaves B's store entries, queues, task states and counters
\* as they were
C28_OtherSessionUntouched ==
    [][\A A \in SessionIDs : StepOn(A) =>
          \A B \in SessionIDs \ {A} : Held(B)' = Held(B)]_vars

\* both sessions hold queued items and running tasks, and a create_session
\* of the second id has failed or a close_session of one of them has returned
C28_TwoSessionsInUse ==
    /\ \A s \in SessionIDs :
          \E i \in Incs : incSid[i] = s /\ queue[i].audio # <<>>
    /\ \/ made[2] = "failed"
       \/ svc[1].pc = "ret"

\* C29: a close_session of the service that found an in-memory session for
\* its id, or a record under its key, returns True; it returns False only
\* when the id had neither
C29_FalseOnlyForUnknown ==
    \A c \in Closers :
        svc[c].pc = "ret" /\ cl[c].inc # 0 => svc[c].ret

\* C30: an iteration of either Send Processor that ends, with the forward
\* having succeeded, having failed, or not having been made, leaves the
\* processor suspended in sleep(0) (or ends the task); an item is dequeued
\* only by a task that starts, that is woken in queue.get(), or that resumes
\* from sleep(0), one item per turn; and queue.get() is waited in only from
\* the start or from sleep(0)
C30_YieldsEveryIteration ==
    [][\A i \in Incs, p \in Procs :
          LET was == task[i][p].pc
              now == task'[i][p].pc
              taken == Len(log'[i][p]) - Len(log[i][p])
          IN  /\ taken \in {0, 1}
              /\ taken = 1 => was \in {"new", "get", "yield"}
              /\ (was = "send" /\ now # "send") =>
                    now \in {"yield"} \cup Terminal
              /\ (taken = 1 /\ now # "send") =>
                    now \in {"yield"} \cup Terminal
              /\ (now = "get" /\ was # "get") => was \in {"new", "yield"}]_vars

\* the audio processor is suspended in sleep(0) after its second iteration,
\* one forward having succeeded and one having failed; the media processor
\* is suspended in sleep(0) after an iteration without a forward
C30_YieldedAfterEachKind ==
    /\ task[1].audio.pc = "yield"
    /\ Len(log[1].audio) = 2
    /\ \E n \in 1..2 : log[1].audio[n].st = "sent"
    /\ \E n \in 1..2 : log[1].audio[n].st \notin {"sent", "pending"}
    /\ task[1].media.pc = "yield"
    /\ \E n \in 1..Len(log[1].media) : log[1].media[n].st = "skipped"

\* C31: the registration of a WebSocket connection under a session id is
\* removed only when that connection's own consumer task ends, or replaced by
\* a later connection; the end of an earlier connection's consumer leaves
\* the newer connection registered
C31_NewerConnectionStaysRegistered ==
    [][\A s \in SessionIDs :
          LET c == active_connections[s]
          IN  (c # 0 /\ active_connections'[s] # c) =>
                 \/ sockets'[c].pc = "done"
                 \/ active_connections'[s] # 0]_vars

\* the packets of a session that broadcast put on connection c's queue, in
\* the order of the calls
Accepted(c) ==
    LET h == casts[sockets[c].sid]
    IN  SelectSeq([n \in 1..Len(h) |-> n],
                  LAMBDA n : h[n].conn = c /\ h[n].ok)

\* what connection c has sent, is sending and still holds, in that order
Pipeline(c) ==
    sockets[c].sent
        \o (IF sockets[c].hand = 0 THEN <<>> ELSE <<sockets[c].hand>>)
        \o sockets[c].q

\* one broadcast call for session s, from its first line to its return
BroadcastStep(s) ==
    LET c == active_connections[s]
        id == Len(casts[s]) + 1
        e == casts'[s][id]
    IN  Len(casts'[s]) = id =>
           /\ active_connections' = active_connections
           /\ c = 0 => sockets' = sockets /\ e.conn = 0
           /\ c # 0 =>
                 IF Len(sockets[c].q) >= OutboundMaxsize
                 THEN sockets' = sockets /\ ~e.ok
                 ELSE /\ e.ok
                      /\ sockets' =
                            [sockets EXCEPT ![c].q = Append(@, id)]

\* C32: a broadcast call returns in the step it is made in: with no
\* connection registered for the session it changes nothing, with a queue
\* that holds 100 items it drops the packet and leaves the queue as it was,
\* otherwise it appends the packet; and the packets a connection has sent,
\* is sending and holds are the accepted ones in the order of their calls
C32_BroadcastDropsAndKeepsOrder ==
    /\ [][\A s \in SessionIDs : BroadcastStep(s)]_vars
    /\ [](\A c \in Conns :
             sockets[c].sid # 0 => Pipeline(c) = Accepted(c))

\* a packet was broadcast with nothing registered, two packets were sent to
\* the WebSocket, and a packet was dropped on the full queue
C32_DroppedOnFullQueue ==
    /\ \E n \in 1..Len(casts[1]) : casts[1][n].conn = 0
    /\ \E n \in 1..Len(casts[1]) : casts[1][n].conn = 1 /\ ~casts[1][n].ok
    /\ Len(sockets[1].sent) >= 2
    /\ Len(sockets[1].q) = OutboundMaxsize

====
